---- MODULE Spec2Model ----
(***************************************************************************)
(* The rating, synergy and pairing engine of services/autoMatchmaker.ts.   *)
(*                                                                         *)
(* Numbers.  The source computes in IEEE doubles.  Here every real is an   *)
(* integer counting units of 1/Unit = 0.0001, and every multiplication or  *)
(* division rounds to the nearest unit (half away from zero).  Effective   *)
(* ratings are rounded to two decimals by the source, so they are whole    *)
(* multiples of 100 units and every comparison of the cost function and of *)
(* the handicap rule is made on the decimal values themselves.             *)
(*                                                                         *)
(* Identifiers.  Player ids are strings in the source ('1', '2', ...); an  *)
(* id is modelled by the integer its string spells, and the order of       *)
(* Array.prototype.sort() on one-character ids is the integer order.  The  *)
(* key "a-b" built by sort().join('-') is the tuple <<a, b>>.              *)
(***************************************************************************)
EXTENDS Integers, Sequences, FiniteSets, TLC

----------------------------------------------------------------------------
(* Bounds of the model                                                     *)

MaxMatches == 2      \* longest match history passed to an entry point
MaxDate == 2         \* timestamps are 1..MaxDate
MaxPool == 6         \* largest pool handed to generateOptimalPairs
MaxRunMatches == 2   \* longest match history passed to runAutoMatchmaker
MaxTopMatches == 2   \* longest match history passed to findTopMatchupsForTeam
MaxPredictMatches == 1 \* longest match history passed to predictMatchOutcome

----------------------------------------------------------------------------
(* Fixed-point arithmetic                                                  *)

Unit == 10000

Abs(x) == IF x < 0 THEN -x ELSE x

\* n / d rounded to the nearest integer, halves away from zero (d > 0)
RoundDiv(n, d) ==
  IF n >= 0 THEN (2 * n + d) \div (2 * d) ELSE -((2 * (-n) + d) \div (2 * d))

RECURSIVE GCD(_, _)
GCD(a, b) == IF b = 0 THEN a ELSE GCD(b, a % b)

\* a * b and a / b on fixed-point numbers; the product is formed from the
\* hundreds and the remainders of the factors, which keeps every intermediate
\* value small
MulAbs(a, b) ==
  LET ah == a \div 100
      al == a % 100
      bh == b \div 100
      bl == b % 100
  IN ah * bh + RoundDiv((ah * bl + al * bh) * 100 + al * bl, Unit)

Mul(a, b) == IF (a < 0) = (b < 0) THEN MulAbs(Abs(a), Abs(b)) ELSE -MulAbs(Abs(a), Abs(b))
Div(a, b) == LET g == GCD(Unit, b) IN RoundDiv(a * (Unit \div g), b \div g)

RECURSIVE IntPow10(_)
IntPow10(n) == IF n = 0 THEN 1 ELSE 10 * IntPow10(n - 1)

\* 10^(1/2), 10^(1/4), ... 10^(1/4096) in units
Pow10Roots ==
  <<31623, 17783, 13335, 11548, 10746, 10366, 10182, 10090, 10045, 10023, 10011, 10006>>

\* 10^(f/Unit) for 0 <= f < Unit, by the binary digits of f/Unit
RECURSIVE Pow10Frac(_, _, _)
Pow10Frac(f, k, acc) ==
  IF k > Len(Pow10Roots) THEN acc
  ELSE IF 2 * f >= Unit THEN Pow10Frac(2 * f - Unit, k + 1, Mul(acc, Pow10Roots[k]))
  ELSE Pow10Frac(2 * f, k + 1, acc)

\* Math.pow(10, x): saturates at 10^5 (and rounds to 0 below 10^-5)
Pow10(x) ==
  LET n == x \div Unit
      p == Pow10Frac(x - n * Unit, 1, Unit)
  IN IF n >= 5 THEN Unit * IntPow10(5)
     ELSE IF n >= 0 THEN p * IntPow10(n)
     ELSE IF n >= -9 THEN RoundDiv(p, IntPow10(-n))
     ELSE 0

\* Number(x.toFixed(2))
Round2(x) == RoundDiv(x, 100) * 100

RECURSIVE IntPow2(_)
IntPow2(n) == IF n = 0 THEN 1 ELSE 2 * IntPow2(n - 1)

\* ln 2 in units, and the number of binary digits taken of a logarithm
Ln2 == 6931
LogBits == 12

\* x = m * 2^k with 1 <= m < 2: <<m, k>>
RECURSIVE Normalize2(_, _)
Normalize2(x, k) ==
  IF x >= 2 * Unit THEN Normalize2(RoundDiv(x, 2), k + 1)
  ELSE IF x < Unit THEN Normalize2(2 * x, k - 1)
  ELSE <<x, k>>

\* the first LogBits binary digits of log2(m), 1 <= m < 2, by squaring
RECURSIVE Log2Digits(_, _, _)
Log2Digits(m, i, acc) ==
  IF i > LogBits THEN acc
  ELSE LET sq == Mul(m, m)
       IN IF sq >= 2 * Unit
          THEN Log2Digits(RoundDiv(sq, 2), i + 1, 2 * acc + 1)
          ELSE Log2Digits(sq, i + 1, 2 * acc)

\* Math.log(x), x > 0
Ln(x) ==
  LET n == Normalize2(x, 0)
      frac == RoundDiv(Log2Digits(n[1], 1, 0) * Unit, IntPow2(LogBits))
  IN Mul(n[2] * Unit + frac, Ln2)

Max(a, b) == IF a >= b THEN a ELSE b
Min(a, b) == IF a <= b THEN a ELSE b

\* the function f with every value computed (a function constructor is
\* otherwise evaluated anew at each application)
Computed(f) == f @@ <<>>

\* s.slice(0, n)
Take(s, n) == SubSeq(s, 1, Min(n, Len(s)))

RECURSIVE SumOver(_, _)
SumOver(S, f) ==
  IF S = {} THEN 0 ELSE LET e == CHOOSE e \in S : TRUE IN f[e] + SumOver(S \ {e}, f)

\* Array.prototype.sort((a, b) => key(a) - key(b)) is stable: an element
\* goes after every element whose key is not greater than its own.
\* keys[i] is the key of the i-th element; the result lists the indices.
\* The place of the i-th element in the result: after the elements of lower
\* key and after the earlier elements of equal key.
SortedPlace(i, keys) ==
  1 + Cardinality({ j \in 1..Len(keys) :
                      keys[j] < keys[i] \/ (keys[j] = keys[i] /\ j < i) })

\* a function on 1..n as the sequence of its n values
AsSeq(f, n) == SubSeq(f, 1, n)

SortIndices(keys) ==
  LET n == Len(keys)
      ks == AsSeq(keys, n)
      place == AsSeq([i \in 1..n |-> SortedPlace(i, ks)], n)
  IN AsSeq([p \in 1..n |-> CHOOSE i \in 1..n : place[i] = p], n)

SortByKey(s, keys) ==
  LET ix == SortIndices(keys) IN AsSeq([k \in 1..Len(s) |-> s[ix[k]]], Len(s))

----------------------------------------------------------------------------
(* Configuration constants                                                 *)

D_FACTOR == 12000
K_FACTOR == 1800
SUPPORT_CUTOFF == 26000
TARGET_DIFF == 14000

----------------------------------------------------------------------------
(* Inputs: players and matches                                             *)

\* An optional number field is <<>> (undefined) or <<v>>.
Undefined == <<>>
Num(v) == <<v>>
Truthy(o) == o # <<>> /\ o[1] # 0

Player(i, tr, ip) == [id |-> i, tournamentRating |-> tr, initialPoints |-> ip]

Match(d, t1, t2, w) == [date |-> d, team1 |-> t1, team2 |-> t2, winner |-> w]

\* A team field is the sequence of its ids.  Ids are positive: the sequence
\* holding 0 stands for a field that is absent (undefined) in the record.
NoTeam == <<0>>

\* !m.team1 || !m.team2 is false
HasTeams(m) == m.team1 # NoTeam /\ m.team2 # NoTeam

\* Rosters of four players with ids 1..4; id 5 is in no roster.
RosterSkill ==
  << Player(1, Num(25000), Num(1000 * Unit)), Player(2, Undefined, Num(35000)),
     Player(3, Num(30000), Undefined),        Player(4, Num(40000), Num(0)) >>

RosterLegacy ==
  << Player(1, Num(1000 * Unit), Num(1000 * Unit)), Player(2, Undefined, Undefined),
     Player(3, Num(0), Num(0)),                     Player(4, Num(20 * Unit), Undefined) >>

RosterOdd ==
  << Player(1, Num(-15000), Undefined),        Player(2, Num(0), Num(-20000)),
     Player(3, Num(20 * Unit + 100), Undefined), Player(4, Undefined, Num(20 * Unit)) >>

Rosters == {RosterSkill, RosterLegacy, RosterOdd}

\* The team compositions of recorded matches: two-a-side matches, a match with
\* an id outside the roster, a singles side, a three-player side, a match
\* with one player entered twice.
TeamShapes ==
  { << <<1, 2>>, <<3, 4>> >>, << <<3, 1>>, <<4, 2>> >>, << <<1, 5>>, <<3, 4>> >>,
    << <<1>>, <<3, 4>> >>,    << <<1, 2>>, <<3, 4, 2>> >>, << <<1, 1>>, <<1, 2>> >> }

\* the histories also hold a match without team1, one without team2, and a
\* match with the ids of its teams given highest first
MatchPool ==
  { Match(d, sh[1], sh[2], w) : d \in 1..MaxDate, sh \in TeamShapes, w \in {1, 2} }
    \cup { Match(1, NoTeam, <<3, 4>>, 1), Match(MaxDate, <<1, 2, 3>>, NoTeam, 2),
           Match(1, <<4, 3>>, <<2, 1>>, 2), Match(MaxDate, <<4, 3>>, <<2, 1>>, 1) }

MatchLists == UNION { [1..n -> MatchPool] : n \in 0..MaxMatches }

----------------------------------------------------------------------------
(* State                                                                   *)

VARIABLES
  pc,               \* position of the call in progress
  allPlayers,       \* argument allPlayers of the entry point
  allMatches,       \* argument allMatches of the entry point
  playerStats,      \* Map<string, PlayerForm> of calculatePlayerForms
  sortedMatches,    \* the chronologically sorted copy of allMatches
  mi,               \* index in sortedMatches of the next match to replay
  pool,             \* argument pool of generateOptimalPairs
  synergyMatrix,    \* Map<string, number>: pair key -> synergy
  recentPairs,      \* Set<string> of pair keys
  pairs,            \* the GeneratedPair[] under construction
  currentTotalCost, \* running total of the local search
  iter,             \* loop counter of the local search
  costCall,         \* a call of getPairingCost: its two players and its result
  selectedPlayerIds,\* argument selectedPlayerIds of runAutoMatchmaker
  recentMatches,    \* Set<string> of four-player match keys
  result,           \* what an entry point hands to its caller
  pairStats,        \* Map<string, {games, wins}> of calculateSynergyMatrix
  fixedTeamIds,     \* argument fixedTeamIds of findTopMatchupsForTeam
  poolIds,          \* argument poolIds of findTopMatchupsForTeam
  team1Ids,         \* argument team1Ids of predictMatchOutcome
  team2Ids,         \* argument team2Ids of predictMatchOutcome
  idx1,             \* first random pair index of a local search iteration
  idx2              \* second random pair index of a local search iteration

formVars == <<allPlayers, allMatches, playerStats, sortedMatches, mi>>

pairVars == <<pool, synergyMatrix, recentPairs, pairs, currentTotalCost, iter>>

runVars == <<selectedPlayerIds, recentMatches, result>>

synVars == <<pairStats>>

queryVars == <<fixedTeamIds, poolIds, team1Ids, team2Ids>>

drawVars == <<idx1, idx2>>

vars == <<pc, allPlayers, allMatches, playerStats, sortedMatches, mi,
          pool, synergyMatrix, recentPairs, pairs, currentTotalCost, iter, costCall,
          selectedPlayerIds, recentMatches, result,
          pairStats, fixedTeamIds, poolIds, team1Ids, team2Ids, idx1, idx2>>

\* the values of the variables a specification does not use
FormsIdle ==
  /\ allPlayers = <<>>
  /\ allMatches = <<>>
  /\ playerStats = <<>>
  /\ sortedMatches = <<>>
  /\ mi = 1

PairsIdle ==
  /\ pool = <<>>
  /\ synergyMatrix = <<>>
  /\ recentPairs = {}
  /\ pairs = <<>>
  /\ currentTotalCost = 0
  /\ iter = 0

CostIdle == costCall = <<>>

RunIdle ==
  /\ selectedPlayerIds = <<>>
  /\ recentMatches = {}
  /\ result = <<>>

SynIdle == pairStats = <<>>

QueryIdle ==
  /\ fixedTeamIds = <<>>
  /\ poolIds = <<>>
  /\ team1Ids = <<>>
  /\ team2Ids = <<>>

\* no index is drawn outside an iteration of the local search
DrawIdle == idx1 = 0 /\ idx2 = 0

\* the locals of a finished call are gone
FormsReset ==
  /\ allPlayers' = <<>>
  /\ allMatches' = <<>>
  /\ playerStats' = <<>>
  /\ sortedMatches' = <<>>
  /\ mi' = 1

PairsReset ==
  /\ pool' = <<>>
  /\ synergyMatrix' = <<>>
  /\ recentPairs' = {}
  /\ pairs' = <<>>
  /\ currentTotalCost' = 0
  /\ iter' = 0

RunReset ==
  /\ selectedPlayerIds' = <<>>
  /\ recentMatches' = {}
  /\ result' = <<>>

QueryReset ==
  /\ fixedTeamIds' = <<>>
  /\ poolIds' = <<>>
  /\ team1Ids' = <<>>
  /\ team2Ids' = <<>>

----------------------------------------------------------------------------
(* STEP 1: calculatePlayerForms                                            *)

rawRating(p) ==
  IF Truthy(p.tournamentRating) THEN p.tournamentRating[1]
  ELSE IF Truthy(p.initialPoints) THEN p.initialPoints[1]
  ELSE 0

\* baseRating with the legacy threshold taken as >= 20
baseRating_from20(raw) ==
  IF raw >= 20 * Unit THEN 3 * Unit ELSE IF raw # 0 THEN raw ELSE 3 * Unit

baseRating(raw) ==
  IF raw > 20 * Unit THEN 3 * Unit ELSE IF raw # 0 THEN raw ELSE 3 * Unit

PlayerIds(players) == { players[k].id : k \in 1..Len(players) }

\* players.forEach(p => playerStats.set(...)) on a new Map: the last player
\* with an id wins
InitStats(players) ==
  Computed(
    [ i \in PlayerIds(players) |->
        LET k == CHOOSE c \in 1..Len(players) :
                   players[c].id = i /\ \A l \in (c + 1)..Len(players) : players[l].id # i
            b == baseRating(rawRating(players[k]))
        IN [id |-> i, baseRating |-> b, form |-> 0, effectiveRating |-> b] ])

\* a comparator that never reorders: the replay runs in input order
SortAscByDate_inputOrder(ms) == ms

\* [...matches].sort((a, b) => getTime(a.date) - getTime(b.date))
SortAscByDate(ms) == SortByKey(ms, [k \in 1..Len(ms) |-> ms[k].date])

\* the guards of lines 69 and 76
TwoATwo(m) == HasTeams(m) /\ Len(m.team1) = 2 /\ Len(m.team2) = 2

Resolvable(stats, m) ==
  /\ TwoATwo(m)
  /\ \A k \in 1..2 : m.team1[k] \in DOMAIN stats /\ m.team2[k] \in DOMAIN stats

expectedT1(effT1, effT2) ==
  RoundDiv(Unit * Unit, Unit + Pow10(Div(effT2 - effT1, D_FACTOR)))

\* the whole of delta given to each player
share_fullDelta(stats, m) ==
  LET eff(i) == stats[i].baseRating + stats[i].form
      effT1 == eff(m.team1[1]) + eff(m.team1[2])
      effT2 == eff(m.team2[1]) + eff(m.team2[2])
      actualS == IF m.winner = 1 THEN Unit ELSE 0
  IN Mul(K_FACTOR, actualS - expectedT1(effT1, effT2))

share(stats, m) ==
  LET eff(i) == stats[i].baseRating + stats[i].form
      effT1 == eff(m.team1[1]) + eff(m.team1[2])
      effT2 == eff(m.team2[1]) + eff(m.team2[2])
      actualS == IF m.winner = 1 THEN Unit ELSE 0
      delta == Mul(K_FACTOR, actualS - expectedT1(effT1, effT2))
  IN RoundDiv(delta, 2)

AddForm(stats, i, d) == [stats EXCEPT ![i].form = @ + d]

\* the body with the last update added instead of subtracted
ReplayMatch_signSlip(stats, m) ==
  IF ~Resolvable(stats, m) THEN stats
  ELSE LET s == share(stats, m)
       IN AddForm(AddForm(AddForm(AddForm(stats, m.team1[1], s), m.team1[2], s),
                          m.team2[1], -s), m.team2[2], s)

\* the body updating whichever of the four players resolve
ReplayMatch_partial(stats, m) ==
  IF ~TwoATwo(m) THEN stats
  ELSE LET s == IF Resolvable(stats, m) THEN share(stats, m) ELSE K_FACTOR \div 4
           upd(st, i, d) == IF i \in DOMAIN st THEN AddForm(st, i, d) ELSE st
       IN upd(upd(upd(upd(stats, m.team1[1], s), m.team1[2], s),
                  m.team2[1], -s), m.team2[2], -s)

\* the body of sortedMatches.forEach
ReplayMatch(stats, m) ==
  IF ~Resolvable(stats, m) THEN stats
  ELSE LET s == share(stats, m)
       IN AddForm(AddForm(AddForm(AddForm(stats, m.team1[1], s), m.team1[2], s),
                          m.team2[1], -s), m.team2[2], -s)

\* the final rounding done by truncation
FinalizeStats_truncate(stats) ==
  [ i \in DOMAIN stats |->
      [stats[i] EXCEPT !.effectiveRating = ((stats[i].baseRating + stats[i].form) \div 100) * 100] ]

FinalizeStats(stats) ==
  Computed(
    [ i \in DOMAIN stats |->
        [stats[i] EXCEPT !.effectiveRating = Round2(stats[i].baseRating + stats[i].form)] ])

\* the matches lo..hi of ms replayed in order on stats: the second half of
\* the range is replayed on the value left by the first half
RECURSIVE ReplayRange(_, _, _, _)
ReplayRange(stats, ms, lo, hi) ==
  IF lo > hi THEN stats
  ELSE IF lo = hi THEN ReplayMatch(stats, ms[lo])
  ELSE LET mid == (lo + hi) \div 2
       IN CHOOSE r \in { ReplayRange(left, ms, mid + 1, hi) :
                           left \in {ReplayRange(stats, ms, lo, mid)} } : TRUE

\* sortedMatches.forEach, from the k-th match on
ReplayAll(stats, ms, k) == ReplayRange(stats, ms, k, Len(ms))

\* the whole function, as the entry points call it
calculatePlayerForms(players, matches) ==
  FinalizeStats(ReplayAll(InitStats(players), SortAscByDate(matches), 1))

----------------------------------------------------------------------------
(* An entry point calls calculatePlayerForms(allPlayers, allMatches); the  *)
(* replay is taken one match at a time.                                    *)

FormsCall ==
  /\ pc = "idle"
  /\ \E players \in Rosters, matches \in MatchLists :
       /\ allPlayers' = players
       /\ allMatches' = matches
       /\ playerStats' = InitStats(players)
       /\ sortedMatches' = SortAscByDate(matches)
  /\ mi' = 1
  /\ pc' = "replay"
  /\ UNCHANGED <<drawVars, pairVars, costCall, runVars, synVars, queryVars>>

FormsReplay ==
  /\ pc = "replay"
  /\ mi <= Len(sortedMatches)
  /\ playerStats' = ReplayMatch(playerStats, sortedMatches[mi])
  /\ mi' = mi + 1
  /\ UNCHANGED <<drawVars, pc, allPlayers, allMatches, sortedMatches, pairVars, costCall, runVars, synVars, queryVars>>

FormsFinalize ==
  /\ pc = "replay"
  /\ mi > Len(sortedMatches)
  /\ playerStats' = FinalizeStats(playerStats)
  /\ pc' = "done"
  /\ UNCHANGED <<drawVars, allPlayers, allMatches, sortedMatches, mi, pairVars, costCall, runVars, synVars, queryVars>>

\* the Map is handed to the caller and the locals of the call are gone
FormsReturn ==
  /\ pc = "done"
  /\ pc' = "idle"
  /\ FormsReset
  /\ UNCHANGED <<drawVars, pairVars, costCall, runVars, synVars, queryVars>>

FormsInit == pc = "idle" /\ FormsIdle /\ PairsIdle /\ CostIdle /\ RunIdle /\ SynIdle /\ QueryIdle /\ DrawIdle

FormsNext == FormsCall \/ FormsReplay \/ FormsFinalize \/ FormsReturn

SpecForms == FormsInit /\ [][FormsNext]_vars

----------------------------------------------------------------------------
(* STEP 2: calculateSynergyMatrix                                          *)

\* [String(id1), String(id2)].sort().join('-')
\* the key keeping the order in which the two ids are given
PairKey_asGiven(id1, id2) == <<id1, id2>>

PairKey(id1, id2) == IF id1 <= id2 THEN <<id1, id2>> ELSE <<id2, id1>>

\* ids.map(String).sort().join('-')
SortedKey(ids) == SortByKey(ids, ids)

\* pairStats after one more game of the pair under key k
CountGame(stats, k, won) ==
  LET old == IF k \in DOMAIN stats THEN stats[k] ELSE [games |-> 0, wins |-> 0]
      new == [games |-> old.games + 1, wins |-> old.wins + (IF won THEN 1 ELSE 0)]
  IN Computed([ x \in DOMAIN stats \cup {k} |-> IF x = k THEN new ELSE stats[x] ])

\* the body counting a match only when both teams are two-a-side
CountMatch_bothTeams(stats, m) ==
  IF ~TwoATwo(m) THEN stats
  ELSE CountGame(CountGame(stats, PairKey(m.team1[1], m.team1[2]), m.winner = 1),
                 PairKey(m.team2[1], m.team2[2]), m.winner = 2)

\* the body of matches.forEach (lines 112-130)
CountMatch(stats, m) ==
  IF ~HasTeams(m) THEN stats
  ELSE LET s1 == IF Len(m.team1) = 2
                 THEN CountGame(stats, PairKey(m.team1[1], m.team1[2]), m.winner = 1)
                 ELSE stats
       IN IF Len(m.team2) = 2
          THEN CountGame(s1, PairKey(m.team2[1], m.team2[2]), m.winner = 2)
          ELSE s1

\* the matches lo..hi of ms counted in order: the second half of the range
\* is counted on the value left by the first half
RECURSIVE CountRange(_, _, _, _)
CountRange(stats, ms, lo, hi) ==
  IF lo > hi THEN stats
  ELSE IF lo = hi THEN CountMatch(stats, ms[lo])
  ELSE LET mid == (lo + hi) \div 2
       IN CHOOSE r \in { CountRange(left, ms, mid + 1, hi) :
                           left \in {CountRange(stats, ms, lo, mid)} } : TRUE

\* matches.forEach, from the k-th match on
PairStats(stats, ms, k) == CountRange(stats, ms, k, Len(ms))

\* lines 136-140
Synergy(stat) ==
  LET p == RoundDiv((stat.wins + 2) * Unit, stat.games + 4)
      safeP == Max(100, Min(9900, p))
  IN Mul(Ln(Div(safeP, Unit - safeP)),
         RoundDiv(stat.games * Unit, stat.games + 6))

\* pairStats.forEach((stat, key) => synergyMap.set(key, syn))
SynergyMap(stats) == Computed([ k \in DOMAIN stats |-> Synergy(stats[k]) ])

calculateSynergyMatrix(matches) == SynergyMap(PairStats(<<>>, matches, 1))

----------------------------------------------------------------------------
(* An entry point calls calculateSynergyMatrix(allMatches); the counting   *)
(* is taken one match at a time.                                           *)

SynergyCall ==
  /\ pc = "idle"
  /\ \E matches \in MatchLists : allMatches' = matches
  /\ pairStats' = <<>>
  /\ mi' = 1
  /\ pc' = "count"
  /\ UNCHANGED <<drawVars, allPlayers, playerStats, sortedMatches, pairVars, costCall, runVars,
                 queryVars>>

SynergyCount ==
  /\ pc = "count"
  /\ mi <= Len(allMatches)
  /\ pairStats' = CountMatch(pairStats, allMatches[mi])
  /\ mi' = mi + 1
  /\ UNCHANGED <<drawVars, pc, allPlayers, allMatches, playerStats, sortedMatches, pairVars,
                 costCall, runVars, queryVars>>

SynergyFinish ==
  /\ pc = "count"
  /\ mi > Len(allMatches)
  /\ synergyMatrix' = SynergyMap(pairStats)
  /\ pc' = "done"
  /\ UNCHANGED <<drawVars, formVars, pool, recentPairs, pairs, currentTotalCost, iter, costCall,
                 runVars, synVars, queryVars>>

\* the Map is handed to the caller and the locals of the call are gone
SynergyReturn ==
  /\ pc = "done"
  /\ pc' = "idle"
  /\ allMatches' = <<>>
  /\ mi' = 1
  /\ pairStats' = <<>>
  /\ synergyMatrix' = <<>>
  /\ UNCHANGED <<drawVars, allPlayers, playerStats, sortedMatches, pool, recentPairs, pairs,
                 currentTotalCost, iter, costCall, runVars, queryVars>>

SynergyInit ==
  pc = "idle" /\ FormsIdle /\ PairsIdle /\ CostIdle /\ RunIdle /\ SynIdle /\ QueryIdle /\ DrawIdle

SynergyNext == SynergyCall \/ SynergyCount \/ SynergyFinish \/ SynergyReturn

SpecSynergy == SynergyInit /\ [][SynergyNext]_vars

----------------------------------------------------------------------------
(* STEP 3: getPairingCost                                                  *)

PlayerForm(i, e) == [id |-> i, baseRating |-> e, form |-> 0, effectiveRating |-> e]

\* synergyMatrix.get(key) || 0
SynergyOf(syn, key) == IF key \in DOMAIN syn THEN syn[key] ELSE 0

\* the cost with the two similarity bounds taken as <= and >=
getPairingCost_inclusive(p1, p2, syn, recent) ==
  LET diff == Abs(p1.effectiveRating - p2.effectiveRating)
      sy == SynergyOf(syn, PairKey(p1.id, p2.id))
  IN Mul(diff - TARGET_DIFF, diff - TARGET_DIFF)
     + (IF diff <= 6000 THEN 15000 ELSE 0)
     + (IF diff >= 20000 THEN 30000 ELSE 0)
     + (IF p1.effectiveRating < SUPPORT_CUTOFF /\ p2.effectiveRating < SUPPORT_CUTOFF
        THEN 10 * Unit ELSE 0)
     + (IF Abs(sy) > 3500 THEN Mul(Abs(sy), 2 * Unit) ELSE 0)
     + (IF PairKey(p1.id, p2.id) \in recent THEN 15 * Unit ELSE 0)

\* the cost with the synergy looked up under the unsorted key
getPairingCost_unsortedKey(p1, p2, syn, recent) ==
  LET diff == Abs(p1.effectiveRating - p2.effectiveRating)
      sy == SynergyOf(syn, <<p1.id, p2.id>>)
  IN Mul(diff - TARGET_DIFF, diff - TARGET_DIFF)
     + (IF diff < 6000 THEN 15000 ELSE 0)
     + (IF diff > 20000 THEN 30000 ELSE 0)
     + (IF p1.effectiveRating < SUPPORT_CUTOFF /\ p2.effectiveRating < SUPPORT_CUTOFF
        THEN 10 * Unit ELSE 0)
     + (IF Abs(sy) > 3500 THEN Mul(Abs(sy), 2 * Unit) ELSE 0)
     + (IF PairKey(p1.id, p2.id) \in recent THEN 15 * Unit ELSE 0)

getPairingCost(p1, p2, syn, recent) ==
  LET diff == Abs(p1.effectiveRating - p2.effectiveRating)
      sy == SynergyOf(syn, PairKey(p1.id, p2.id))
  IN Mul(diff - TARGET_DIFF, diff - TARGET_DIFF)
     + (IF diff < 6000 THEN 15000 ELSE 0)
     + (IF diff > 20000 THEN 30000 ELSE 0)
     + (IF p1.effectiveRating < SUPPORT_CUTOFF /\ p2.effectiveRating < SUPPORT_CUTOFF
        THEN 10 * Unit ELSE 0)
     + (IF Abs(sy) > 3500 THEN Mul(Abs(sy), 2 * Unit) ELSE 0)
     + (IF PairKey(p1.id, p2.id) \in recent THEN 15 * Unit ELSE 0)

----------------------------------------------------------------------------
(* getPairingCost on its own: the arguments are drawn, the function is     *)
(* applied.                                                                *)

\* effective ratings around the thresholds 0.6, 2.0 (differences) and 2.6
CostRatings == {20000, 25900, 26000, 26100, 32000, 40000, 40100, 46000}

\* synergy scores around the threshold 0.35, of both signs
CostSynergies == {-5000, -3500, 0, 3500, 3501, 12000}

CostIds == 1..3

CostSynergyMaps ==
  {<<>>} \cup { [k \in {key} |-> v] : key \in {<<1, 2>>, <<2, 3>>}, v \in CostSynergies }

CostRecentSets == { {}, {<<1, 2>>}, {<<1, 3>>, <<2, 3>>} }

CostCall ==
  /\ pc = "idle"
  /\ \E i1, i2 \in CostIds, e1, e2 \in CostRatings,
        syn \in CostSynergyMaps, recent \in CostRecentSets :
       /\ synergyMatrix' = syn
       /\ recentPairs' = recent
       /\ costCall' = [p1 |-> PlayerForm(i1, e1), p2 |-> PlayerForm(i2, e2),
                       cost |-> getPairingCost(PlayerForm(i1, e1), PlayerForm(i2, e2),
                                               syn, recent)]
  /\ pc' = "done"
  /\ UNCHANGED <<drawVars, formVars, pool, pairs, currentTotalCost, iter, runVars, synVars, queryVars>>

CostReturn ==
  /\ pc = "done"
  /\ pc' = "idle"
  /\ synergyMatrix' = <<>>
  /\ recentPairs' = {}
  /\ costCall' = <<>>
  /\ UNCHANGED <<drawVars, formVars, pool, pairs, currentTotalCost, iter, runVars, synVars, queryVars>>

CostInit == pc = "idle" /\ FormsIdle /\ PairsIdle /\ CostIdle /\ RunIdle /\ SynIdle /\ QueryIdle /\ DrawIdle

CostNext == CostCall \/ CostReturn

SpecCost == CostInit /\ [][CostNext]_vars

----------------------------------------------------------------------------
(* STEP 4: generateOptimalPairs                                            *)

LOCAL_SEARCH_ITERATIONS == 200

GeneratedPair(p1, p2, c) ==
  [player1 |-> p1, player2 |-> p2,
   strength |-> p1.effectiveRating + p2.effectiveRating,
   structure |-> Abs(p1.effectiveRating - p2.effectiveRating),
   cost |-> c]

\* [...pool].sort((a, b) => a.effectiveRating - b.effectiveRating)
SortAscByRating(ps) == SortByKey(ps, [k \in 1..Len(ps) |-> ps[k].effectiveRating])

\* the inner loop keeping the partner of highest cost
RECURSIVE FindPartner_costliest(_, _, _, _, _, _, _, _)
FindPartner_costliest(sp, syn, recent, used, i, j, best, minCost) ==
  IF j > Len(sp) THEN [partner |-> best, cost |-> minCost]
  ELSE IF sp[j].id \in used
       THEN FindPartner_costliest(sp, syn, recent, used, i, j + 1, best, minCost)
       ELSE LET c == getPairingCost(sp[i], sp[j], syn, recent)
            IN IF best = 0 \/ c > minCost
               THEN FindPartner_costliest(sp, syn, recent, used, i, j + 1, j, c)
               ELSE FindPartner_costliest(sp, syn, recent, used, i, j + 1, best, minCost)

\* the inner loop over j: best is the index of bestPartner (0 for null) and
\* minCost its cost (Infinity while best is 0)
RECURSIVE FindPartner(_, _, _, _, _, _, _, _)
FindPartner(sp, syn, recent, used, i, j, best, minCost) ==
  IF j > Len(sp) THEN [partner |-> best, cost |-> minCost]
  ELSE IF sp[j].id \in used
       THEN FindPartner(sp, syn, recent, used, i, j + 1, best, minCost)
       ELSE LET c == getPairingCost(sp[i], sp[j], syn, recent)
            IN IF best = 0 \/ c < minCost
               THEN FindPartner(sp, syn, recent, used, i, j + 1, j, c)
               ELSE FindPartner(sp, syn, recent, used, i, j + 1, best, minCost)

\* the outer loop over i
RECURSIVE GreedyInit(_, _, _, _, _, _)
GreedyInit(sp, syn, recent, used, i, acc) ==
  IF i > Len(sp) THEN acc
  ELSE IF sp[i].id \in used THEN GreedyInit(sp, syn, recent, used, i + 1, acc)
  ELSE LET b == FindPartner(sp, syn, recent, used, i, i + 1, 0, 0)
       IN IF b.partner = 0 THEN GreedyInit(sp, syn, recent, used, i + 1, acc)
          ELSE GreedyInit(sp, syn, recent,
                          used \cup {sp[i].id, sp[b.partner].id}, i + 1,
                          Append(acc, GeneratedPair(sp[i], sp[b.partner], b.cost)))

\* the pairs after the greedy phase (lines 194-228)
GreedyPairs(ps, syn, recent) == GreedyInit(SortAscByRating(ps), syn, recent, {}, 1, <<>>)

\* pairs.reduce((sum, p) => sum + p.cost, 0)
TotalCost(prs) == SumOver(1..Len(prs), [k \in 1..Len(prs) |-> prs[k].cost])

\* a swap accepted whatever the new total
AcceptSwap_always(newTotalCost, total) == TRUE

\* newTotalCost < currentTotalCost
AcceptSwap(newTotalCost, total) == newTotalCost < total

\* the swap leaving each pair the cost it had before
ApplySwap_staleCost(prs, i1, i2, costSwap1, costSwap2) ==
  [prs EXCEPT
     ![i1] = GeneratedPair(prs[i1].player1, prs[i2].player2, prs[i1].cost),
     ![i2] = GeneratedPair(prs[i2].player1, prs[i1].player2, prs[i2].cost)]

\* the swap giving pair B the second member it already has
ApplySwap_keepB2(prs, i1, i2, costSwap1, costSwap2) ==
  [prs EXCEPT
     ![i1] = GeneratedPair(prs[i1].player1, prs[i2].player2, costSwap1),
     ![i2] = GeneratedPair(prs[i2].player1, prs[i2].player2, costSwap2)]

\* pairs[idx1] = (A1, B2); pairs[idx2] = (B1, A2)
ApplySwap(prs, i1, i2, costSwap1, costSwap2) ==
  [prs EXCEPT
     ![i1] = GeneratedPair(prs[i1].player1, prs[i2].player2, costSwap1),
     ![i2] = GeneratedPair(prs[i2].player1, prs[i1].player2, costSwap2)]

----------------------------------------------------------------------------
(* generateOptimalPairs on its own: greedy seeding, then the local search  *)
(* one iteration at a time.                                                *)

PoolRatings == {20000, 25000, 34000, 40000}

\* pools in ascending or in descending order of rating; the player at
\* position k has id k
Pools ==
  { [k \in 1..Len(r) |-> PlayerForm(k, r[k])] :
      r \in { q \in UNION { [1..n -> PoolRatings] : n \in 0..MaxPool } :
                \/ \A k \in 1..(Len(q) - 1) : q[k] <= q[k + 1]
                \/ \A k \in 1..(Len(q) - 1) : q[k] >= q[k + 1] } }

\* four players rated 2.0, 3.0, 4.0 and 5.0, in three orders
ScenarioPools ==
  { [k \in 1..4 |-> PlayerForm(k, r[k])] :
      r \in { <<20000, 30000, 40000, 50000>>, <<50000, 40000, 30000, 20000>>,
              <<40000, 20000, 50000, 30000>> } }

PoolSynergyMaps ==
  { <<>>, [k \in {<<1, 3>>, <<2, 4>>} |-> IF k = <<1, 3>> THEN 5000 ELSE -4000] }

PoolRecentSets == { {}, {<<2, 4>>, <<1, 2>>} }

PairsCall ==
  /\ pc = "idle"
  /\ \E ps \in Pools \cup ScenarioPools, syn \in PoolSynergyMaps,
        recent \in PoolRecentSets :
       /\ pool' = ps
       /\ synergyMatrix' = syn
       /\ recentPairs' = recent
       /\ pairs' = GreedyPairs(ps, syn, recent)
       /\ currentTotalCost' = TotalCost(GreedyPairs(ps, syn, recent))
  /\ iter' = 0
  /\ pc' = "search"
  /\ UNCHANGED <<drawVars, formVars, costCall, runVars, synVars, queryVars>>

\* one iteration of the for loop: idx1 and idx2 are the random draws, idx2
\* redrawn until it differs from idx1
PairsIteration ==
  /\ pc = "search"
  /\ iter < LOCAL_SEARCH_ITERATIONS
  /\ Len(pairs) >= 2
  /\ \E i1, i2 \in 1..Len(pairs) :
       /\ i1 # i2
       /\ LET pairA == pairs[i1]
              pairB == pairs[i2]
              costSwap1 == getPairingCost(pairA.player1, pairB.player2,
                                          synergyMatrix, recentPairs)
              costSwap2 == getPairingCost(pairB.player1, pairA.player2,
                                          synergyMatrix, recentPairs)
              newTotalCost ==
                currentTotalCost - pairA.cost - pairB.cost + costSwap1 + costSwap2
          IN IF AcceptSwap(newTotalCost, currentTotalCost)
             THEN /\ pairs' = ApplySwap(pairs, i1, i2, costSwap1, costSwap2)
                  /\ currentTotalCost' = newTotalCost
             ELSE UNCHANGED <<pairs, currentTotalCost>>
  /\ iter' = iter + 1
  /\ UNCHANGED <<drawVars, pc, pool, synergyMatrix, recentPairs, formVars, costCall, runVars, synVars, queryVars>>

\* if (pairs.length < 2) break
PairsBreak ==
  /\ pc = "search"
  /\ iter < LOCAL_SEARCH_ITERATIONS
  /\ Len(pairs) < 2
  /\ pc' = "done"
  /\ UNCHANGED <<drawVars, pairVars, formVars, costCall, runVars, synVars, queryVars>>

\* the loop condition fails
PairsLoopEnd ==
  /\ pc = "search"
  /\ iter >= LOCAL_SEARCH_ITERATIONS
  /\ pc' = "done"
  /\ UNCHANGED <<drawVars, pairVars, formVars, costCall, runVars, synVars, queryVars>>

PairsReturn ==
  /\ pc = "done"
  /\ pc' = "idle"
  /\ PairsReset
  /\ UNCHANGED <<drawVars, formVars, costCall, runVars, synVars, queryVars>>

PairsInit == pc = "idle" /\ FormsIdle /\ PairsIdle /\ CostIdle /\ RunIdle /\ SynIdle /\ QueryIdle /\ DrawIdle

PairsNext == PairsCall \/ PairsIteration \/ PairsBreak \/ PairsLoopEnd \/ PairsReturn

SpecPairs == PairsInit /\ [][PairsNext]_vars

----------------------------------------------------------------------------
(* The local search of generateOptimalPairs, one statement at a time       *)
(* (lines 234-271): the two random draws, the retry loop on the second     *)
(* index, and the swap attempt.                                            *)

\* pools of no, one, two and three pairs
SearchPools ==
  ScenarioPools \cup
  { <<>>,
    [k \in 1..2 |-> PlayerForm(k, 30000 + 5000 * k)],
    [k \in 1..6 |-> PlayerForm(k, <<20000, 45000, 30000, 25000, 40000, 35000>>[k])] }

SearchCall ==
  /\ pc = "idle"
  /\ \E ps \in SearchPools, syn \in PoolSynergyMaps :
       /\ pool' = ps
       /\ synergyMatrix' = syn
       /\ recentPairs' = {}
       /\ pairs' = GreedyPairs(ps, syn, {})
       /\ currentTotalCost' = TotalCost(GreedyPairs(ps, syn, {}))
  /\ iter' = 0
  /\ pc' = "search"
  /\ UNCHANGED <<drawVars, formVars, costCall, runVars, synVars, queryVars>>

\* Math.floor(Math.random() * pairs.length): any index of pairs
RandomIndex(n) == 1..n

\* the condition of the retry loop with no index
Retry_never(i1, i2) == FALSE

\* while (idx1 === idx2)
Retry(i1, i2) == i1 = i2

\* the loop condition holds, there are two pairs, and both indices are drawn
SearchDraw ==
  /\ pc = "search"
  /\ iter < LOCAL_SEARCH_ITERATIONS
  /\ Len(pairs) >= 2
  /\ idx1' \in RandomIndex(Len(pairs))
  /\ idx2' \in RandomIndex(Len(pairs))
  /\ pc' = "drawn"
  /\ UNCHANGED <<pairVars, formVars, costCall, runVars, synVars, queryVars>>

\* one pass of the retry loop: the second index is drawn again
SearchRedraw ==
  /\ pc = "drawn"
  /\ Retry(idx1, idx2)
  /\ idx2' \in RandomIndex(Len(pairs))
  /\ UNCHANGED <<pc, idx1, pairVars, formVars, costCall, runVars, synVars, queryVars>>

\* the rest of the iteration, and iter++
SearchSwap ==
  /\ pc = "drawn"
  /\ ~Retry(idx1, idx2)
  /\ LET pairA == pairs[idx1]
         pairB == pairs[idx2]
         costSwap1 == getPairingCost(pairA.player1, pairB.player2,
                                     synergyMatrix, recentPairs)
         costSwap2 == getPairingCost(pairB.player1, pairA.player2,
                                     synergyMatrix, recentPairs)
         newTotalCost ==
           currentTotalCost - pairA.cost - pairB.cost + costSwap1 + costSwap2
     IN IF AcceptSwap(newTotalCost, currentTotalCost)
        THEN /\ pairs' = ApplySwap(pairs, idx1, idx2, costSwap1, costSwap2)
             /\ currentTotalCost' = newTotalCost
        ELSE UNCHANGED <<pairs, currentTotalCost>>
  /\ iter' = iter + 1
  /\ idx1' = 0
  /\ idx2' = 0
  /\ pc' = "search"
  /\ UNCHANGED <<pool, synergyMatrix, recentPairs, formVars, costCall, runVars, synVars,
                 queryVars>>

SearchNext ==
  SearchCall \/ SearchDraw \/ SearchRedraw \/ SearchSwap \/ PairsBreak \/ PairsLoopEnd
    \/ PairsReturn

\* every statement that can run does run, and the random source does not
\* repeat the first index for ever
SearchFairness ==
  /\ WF_vars(SearchDraw)
  /\ WF_vars(SearchRedraw /\ idx2' # idx1)
  /\ WF_vars(SearchSwap)
  /\ WF_vars(PairsBreak)
  /\ WF_vars(PairsLoopEnd)

SpecSearch == PairsInit /\ [][SearchNext]_vars /\ SearchFairness

----------------------------------------------------------------------------
(* STEP 5 and 6: generateMatchups                                          *)

\* [...teams].sort((a, b) => b.strength - a.strength)
SortDescByStrength(ts) == SortByKey(ts, [k \in 1..Len(ts) |-> -ts[k].strength])

\* the key of the four players of a match
MatchKey(t1, t2) == SortedKey(<<t1.player1.id, t1.player2.id, t2.player1.id, t2.player2.id>>)

\* the cost of t2 as opponent of t1 (lines 299-309)
MatchCost(t1, t2, recent) ==
  Mul(t1.strength - t2.strength, t1.strength - t2.strength)
  + Mul(7000, Mul(t1.structure - t2.structure, t1.structure - t2.structure))
  + (IF MatchKey(t1, t2) \in recent THEN 50 * Unit ELSE 0)

\* the loop keeping the last of the teams of lowest cost
RECURSIVE FindOpponent_lastOnTie(_, _, _, _, _, _)
FindOpponent_lastOnTie(t1, rest, recent, i, best, minMatchCost) ==
  IF i > Len(rest) THEN [idx |-> best, cost |-> minMatchCost]
  ELSE LET c == MatchCost(t1, rest[i], recent)
       IN IF best = 0 \/ c <= minMatchCost
          THEN FindOpponent_lastOnTie(t1, rest, recent, i + 1, i, c)
          ELSE FindOpponent_lastOnTie(t1, rest, recent, i + 1, best, minMatchCost)

\* the loop over the remaining teams: best is bestOpponentIdx (0 for -1)
RECURSIVE FindOpponent(_, _, _, _, _, _)
FindOpponent(t1, rest, recent, i, best, minMatchCost) ==
  IF i > Len(rest) THEN [idx |-> best, cost |-> minMatchCost]
  ELSE LET c == MatchCost(t1, rest[i], recent)
       IN IF best = 0 \/ c < minMatchCost
          THEN FindOpponent(t1, rest, recent, i + 1, i, c)
          ELSE FindOpponent(t1, rest, recent, i + 1, best, minMatchCost)

\* the points of the step function (lines 326-329)
HandicapPoints(diff) ==
  IF diff > 3000 /\ diff <= 6000 THEN 1
  ELSE IF diff > 6000 /\ diff <= 9000 THEN 2
  ELSE IF diff > 9000 /\ diff <= 12000 THEN 3
  ELSE IF diff > 12000 THEN 4
  ELSE 0

\* a handicap record written whatever the points
Handicap_always(t1, t2) ==
  LET diff == Abs(t1.strength - t2.strength)
      weakerTeam == IF t1.strength < t2.strength THEN 1 ELSE 2
  IN << [team |-> weakerTeam, points |-> HandicapPoints(diff), reason |-> Round2(diff)] >>

\* STEP 6 (lines 322-345): <<>> for undefined, else the handicap in a 1-tuple
Handicap(t1, t2) ==
  LET diff == Abs(t1.strength - t2.strength)
      weakerTeam == IF t1.strength < t2.strength THEN 1 ELSE 2
      weakPair == IF weakerTeam = 1 THEN t1 ELSE t2
      base == HandicapPoints(diff)
      points == IF base > 0 /\ (\/ weakPair.player1.effectiveRating < SUPPORT_CUTOFF
                                \/ weakPair.player2.effectiveRating < SUPPORT_CUTOFF)
                THEN base + 1 ELSE base
  IN IF points > 0
     THEN << [team |-> weakerTeam, points |-> points, reason |-> Round2(diff)] >>
     ELSE <<>>

GeneratedMatch(t1, t2, c, h, a) ==
  [team1 |-> t1, team2 |-> t2, matchCost |-> c, handicap |-> h, analysis |-> a]

RemoveAt(sq, i) == SubSeq(sq, 1, i - 1) \o SubSeq(sq, i + 1, Len(sq))

\* the while loop leaving the chosen opponent in the pool
RECURSIVE Matchups_keepOpponent(_, _, _)
Matchups_keepOpponent(pl, recent, acc) ==
  IF Len(pl) < 2 THEN acc
  ELSE LET t1 == pl[1]
           rest == Tail(pl)
           b == FindOpponent(t1, rest, recent, 1, 0, 0)
       IN Matchups_keepOpponent(rest, recent,
            Append(acc,
              GeneratedMatch(t1, rest[b.idx], b.cost, Handicap(t1, rest[b.idx]),
                [team2Synergy |-> 0, team2Form |-> 0,
                 qualityScore |-> Max(0, 100 * Unit - b.cost)])))

\* the while loop (lines 286-359)
RECURSIVE Matchups(_, _, _)
Matchups(pl, recent, acc) ==
  IF Len(pl) < 2 THEN acc
  ELSE LET t1 == pl[1]
           rest == Tail(pl)
           b == FindOpponent(t1, rest, recent, 1, 0, 0)
       IN IF b.idx = 0 THEN Matchups(rest, recent, acc)
          ELSE Matchups(RemoveAt(rest, b.idx), recent,
                 Append(acc,
                   GeneratedMatch(t1, rest[b.idx], b.cost, Handicap(t1, rest[b.idx]),
                     [team2Synergy |-> 0, team2Form |-> 0,
                      qualityScore |-> Max(0, 100 * Unit - b.cost)])))

\* a scheduler giving every team its best opponent and taking no team out
\* of the pool
generateMatchups_noConsume(teams, recent) ==
  LET pl == SortDescByStrength(teams)
  IN IF Len(pl) < 2 THEN <<>>
     ELSE [ k \in 1..Len(pl) |->
              LET rest == RemoveAt(pl, k)
                  b == FindOpponent(pl[k], rest, recent, 1, 0, 0)
              IN GeneratedMatch(pl[k], rest[b.idx], b.cost, Handicap(pl[k], rest[b.idx]),
                   [team2Synergy |-> 0, team2Form |-> 0,
                    qualityScore |-> Max(0, 100 * Unit - b.cost)]) ]

generateMatchups(teams, recent) == Matchups(SortDescByStrength(teams), recent, <<>>)

----------------------------------------------------------------------------
(* runAutoMatchmaker: validation, learning and greedy seeding in one step, *)
(* the local search one iteration at a time, then the matchups.            *)

RECENT_WINDOW == 20

\* allPlayers.filter(p => selectedPlayerIds.includes(String(p.id)))
SelectedPlayers(ids, players) ==
  SelectSeq(players, LAMBDA p : \E k \in 1..Len(ids) : ids[k] = p.id)

\* a validation rejecting only a lone player
InvalidSelection_single(selectedPlayers) == Len(selectedPlayers) = 1

\* selectedPlayers.length % 2 !== 0
InvalidSelection(selectedPlayers) == Len(selectedPlayers) % 2 # 0

\* selectedPlayers.map(p => playerForms.get(String(p.id))!)
PoolOf(selectedPlayers, playerForms) ==
  [ k \in 1..Len(selectedPlayers) |-> playerForms[selectedPlayers[k].id] ]

\* the window holding every match of the history
RecentWindow_all(matches) ==
  SortByKey(matches, [k \in 1..Len(matches) |-> -matches[k].date])

\* [...allMatches].sort((a, b) => getTime(b.date) - getTime(a.date)).slice(0, 20)
RecentWindow(matches) ==
  Take(SortByKey(matches, [k \in 1..Len(matches) |-> -matches[k].date]), RECENT_WINDOW)

\* the pair keys added by lines 629-630
RecentPairsOf(ms) ==
  { PairKey(ms[k].team1[1], ms[k].team1[2]) : k \in { c \in 1..Len(ms) : Len(ms[c].team1) = 2 } }
  \cup
  { PairKey(ms[k].team2[1], ms[k].team2[2]) : k \in { c \in 1..Len(ms) : Len(ms[c].team2) = 2 } }

\* the match keys added by lines 631-633
RecentMatchesOf(ms) ==
  { SortedKey(ms[k].team1 \o ms[k].team2) :
      k \in { c \in 1..Len(ms) : Len(ms[c].team1) = 2 /\ Len(ms[c].team2) = 2 } }

\* throw new Error("Số lượng người chơi phải là số chẵn."): nothing is returned
RunError == [kind |-> "error"]

\* reading .length of undefined: the call ends with a TypeError
TypeError == [kind |-> "TypeError"]

\* lines 629-630 read m.team1.length, then m.team2.length, of every match of
\* the window
RunRecencyThrows(ms) ==
  \E k \in 1..Len(ms) : ms[k].team1 = NoTeam \/ ms[k].team2 = NoTeam

\* a club of eight players with ids 1..8; the sums of two ratings lie 0.3,
\* 0.6, 0.9 and 1.2 away from one another, and off those edges
RosterClub ==
  << Player(1, Num(20000), Undefined), Player(2, Num(25000), Undefined),
     Player(3, Num(23000), Undefined), Player(4, Num(25000), Undefined),
     Player(5, Num(26000), Undefined), Player(6, Num(29000), Undefined),
     Player(7, Num(32000), Undefined), Player(8, Num(46000), Undefined) >>

RunRosters == Rosters \cup {RosterClub}

\* six players of whom two are rated 2.0 and two 3.4
RosterTwins ==
  << Player(1, Num(20000), Undefined), Player(2, Num(34000), Undefined),
     Player(3, Num(20000), Undefined), Player(4, Num(34000), Undefined),
     Player(5, Num(30000), Undefined), Player(6, Num(40000), Undefined) >>

SchedulerRosters == RunRosters \cup {RosterTwins}

AutoMatchResult(ps, prs, ms) == [kind |-> "ok", players |-> ps, pairs |-> prs, matches |-> ms]

\* the ids the caller passes: none, an id of no player, two, three, three
\* with an id of no player, an id given twice, four, five, six and eight ids
RunSelections ==
  { <<>>, <<5>>, <<1, 2>>, <<1, 2, 3>>, <<1, 2, 5>>, <<1, 1, 2>>, <<3, 1, 4, 2>>,
    <<1, 2, 3, 4, 5>>, <<6, 5, 4, 3, 2, 1>>, <<1, 2, 3, 4, 5, 6, 7, 8>> }

\* id 9 is in no roster
RunMatchPool ==
  { Match(1, <<1, 2>>, <<3, 4>>, 1), Match(2, <<3, 1>>, <<4, 2>>, 2),
    Match(2, <<1>>, <<3, 4>>, 1),    Match(1, <<1, 9>>, <<3, 4>>, 2),
    Match(2, <<1, 2>>, NoTeam, 1) }

\* a match of players 1..4 followed or preceded by n matches of players
\* 5..8 that are not older: histories about as long as a recency window
Aged(d) == Match(d, <<1, 2>>, <<3, 4>>, 1)

Filler == Match(2, <<5, 6>>, <<7, 8>>, 1)

LongHistories(window) ==
  UNION { { <<Aged(d)>> \o [k \in 1..n |-> Filler], [k \in 1..n |-> Filler] \o <<Aged(d)>> } :
            n \in {window - 1, window}, d \in {1, 2} }

RunHistories ==
  UNION { [1..n -> RunMatchPool] : n \in 0..MaxRunMatches } \cup LongHistories(RECENT_WINDOW)

RunCall ==
  /\ pc = "idle"
  /\ \E ids \in RunSelections, players \in SchedulerRosters, matches \in RunHistories :
       /\ selectedPlayerIds' = ids
       /\ allPlayers' = players
       /\ allMatches' = matches
       /\ IF InvalidSelection(SelectedPlayers(ids, players))
          THEN /\ result' = RunError
               /\ pc' = "thrown"
               /\ UNCHANGED <<playerStats, sortedMatches, pairVars, recentMatches>>
          ELSE LET playerForms == calculatePlayerForms(players, matches)
                   ps == PoolOf(SelectedPlayers(ids, players), playerForms)
                   syn == calculateSynergyMatrix(matches)
                   window == RecentWindow(matches)
                   greedy == GreedyPairs(ps, syn, RecentPairsOf(window))
               IN /\ playerStats' = playerForms
                  /\ sortedMatches' = window
                  /\ pool' = ps
                  /\ synergyMatrix' = syn
                  /\ IF RunRecencyThrows(window)
                     THEN /\ result' = TypeError
                          /\ pc' = "thrown"
                          /\ UNCHANGED <<recentPairs, recentMatches, pairs,
                                         currentTotalCost, iter>>
                     ELSE /\ recentPairs' = RecentPairsOf(window)
                          /\ recentMatches' = RecentMatchesOf(window)
                          /\ pairs' = greedy
                          /\ currentTotalCost' = TotalCost(greedy)
                          /\ iter' = 0
                          /\ pc' = "search"
                          /\ UNCHANGED result
  /\ UNCHANGED <<drawVars, mi, costCall, synVars, queryVars>>

\* generateMatchups(pairs, recentMatches) and the return statement
RunMatchups ==
  /\ pc = "done"
  /\ result' = AutoMatchResult(pool, pairs, generateMatchups(pairs, recentMatches))
  /\ pc' = "returned"
  /\ UNCHANGED <<drawVars, formVars, pairVars, costCall, selectedPlayerIds, recentMatches,
                 synVars, queryVars>>

\* the caller has the result, or has caught the error
RunReturn ==
  /\ pc \in {"returned", "thrown"}
  /\ pc' = "idle"
  /\ FormsReset
  /\ PairsReset
  /\ RunReset
  /\ QueryReset
  /\ UNCHANGED <<drawVars, costCall, synVars>>

RunInit == pc = "idle" /\ FormsIdle /\ PairsIdle /\ CostIdle /\ RunIdle /\ SynIdle /\ QueryIdle /\ DrawIdle

RunNext ==
  RunCall \/ PairsIteration \/ PairsBreak \/ PairsLoopEnd \/ RunMatchups \/ RunReturn

SpecRun == RunInit /\ [][RunNext]_vars

----------------------------------------------------------------------------
(* findTopMatchupsForTeam                                                  *)

TOP_WINDOW == 50
TOP_LIMIT == 10

\* playerForms.get(String(id)) is not undefined
Known(playerForms, id) == id \in DOMAIN playerForms

\* the candidate pool keeping an entry for every id given
ResolvedPool_fallback(ids, playerForms) ==
  [ k \in 1..Len(ids) |->
      IF Known(playerForms, ids[k]) THEN playerForms[ids[k]]
      ELSE PlayerForm(ids[k], 3 * Unit) ]

\* poolIds.map(id => playerForms.get(String(id))).filter(p => p !== undefined)
ResolvedPool(ids, playerForms) ==
  LET known == SelectSeq(ids, LAMBDA id : Known(playerForms, id))
  IN [ k \in 1..Len(known) |-> playerForms[known[k]] ]

\* the inner loop starting at j = i from the second row on
RECURSIVE CandidatePairs_fromSelf(_, _, _, _, _)
CandidatePairs_fromSelf(pl, syn, i, j, acc) ==
  IF i > Len(pl) THEN acc
  ELSE IF j > Len(pl) THEN CandidatePairs_fromSelf(pl, syn, i + 1, i + 1, acc)
  ELSE CandidatePairs_fromSelf(pl, syn, i, j + 1,
         Append(acc, GeneratedPair(pl[i], pl[j], getPairingCost(pl[i], pl[j], syn, {}))))

\* the two nested loops of lines 396-412
RECURSIVE CandidatePairs(_, _, _, _, _)
CandidatePairs(pl, syn, i, j, acc) ==
  IF i > Len(pl) THEN acc
  ELSE IF j > Len(pl) THEN CandidatePairs(pl, syn, i + 1, i + 2, acc)
  ELSE CandidatePairs(pl, syn, i, j + 1,
         Append(acc, GeneratedPair(pl[i], pl[j], getPairingCost(pl[i], pl[j], syn, {}))))

\* [...allMatches].sort(descending date).slice(0, 50)
TopWindow(matches) ==
  Take(SortByKey(matches, [k \in 1..Len(matches) |-> -matches[k].date]), TOP_WINDOW)

\* line 419 reads m.team1.length and, when it is 2, m.team2.length
TopRecencyThrows(ms) ==
  \E k \in 1..Len(ms) :
    ms[k].team1 = NoTeam \/ (Len(ms[k].team1) = 2 /\ ms[k].team2 = NoTeam)

\* lines 425-441
TopMatchCost(fixedTeam, candidate, recent) ==
  Mul(fixedTeam.strength - candidate.strength, fixedTeam.strength - candidate.strength)
  + Mul(7000, Mul(fixedTeam.structure - candidate.structure,
                  fixedTeam.structure - candidate.structure))
  + Mul(candidate.cost, 5000)
  + (IF MatchKey(fixedTeam, candidate) \in recent THEN 50 * Unit ELSE 0)

\* the support bonus looked for in the fixed team, whichever team is weaker
TopHandicap_fixedSupport(fixedTeam, candidate) ==
  LET diff == Abs(fixedTeam.strength - candidate.strength)
      base == HandicapPoints(diff)
      weakerTeam == IF fixedTeam.strength < candidate.strength THEN 1 ELSE 2
      points == IF base > 0 /\ (\/ fixedTeam.player1.effectiveRating < SUPPORT_CUTOFF
                                \/ fixedTeam.player2.effectiveRating < SUPPORT_CUTOFF)
                THEN base + 1 ELSE base
  IN IF points > 0
     THEN << [team |-> weakerTeam, points |-> points, reason |-> Round2(diff)] >>
     ELSE <<>>

\* lines 443-466: <<>> for undefined, else the handicap in a 1-tuple
TopHandicap(fixedTeam, candidate) ==
  LET diff == Abs(fixedTeam.strength - candidate.strength)
      base == IF diff > 3000 /\ diff <= 6000 THEN 1
              ELSE IF diff > 6000 /\ diff <= 9000 THEN 2
              ELSE IF diff > 9000 /\ diff <= 12000 THEN 3
              ELSE IF diff > 12000 THEN 4
              ELSE 0
      weakerTeam == IF fixedTeam.strength < candidate.strength THEN 1 ELSE 2
      weakPair == IF weakerTeam = 1 THEN fixedTeam ELSE candidate
      points == IF base > 0 /\ (\/ weakPair.player1.effectiveRating < SUPPORT_CUTOFF
                                \/ weakPair.player2.effectiveRating < SUPPORT_CUTOFF)
                THEN base + 1 ELSE base
  IN IF points > 0
     THEN << [team |-> weakerTeam, points |-> points, reason |-> Round2(diff)] >>
     ELSE <<>>

\* the callback of candidatePairs.map (lines 424-484)
RankedMatchup(fixedTeam, candidate, syn, recent) ==
  LET matchCost == TopMatchCost(fixedTeam, candidate, recent)
  IN GeneratedMatch(fixedTeam, candidate, matchCost, TopHandicap(fixedTeam, candidate),
       [team2Synergy |-> SynergyOf(syn, PairKey(candidate.player1.id, candidate.player2.id)),
        team2Form |-> candidate.player1.form + candidate.player2.form,
        qualityScore |-> Max(0, 100 * Unit - matchCost)])

\* a.handicap ? a.handicap.points : 0
HandicapPointsOf(m) == IF m.handicap = <<>> THEN 0 ELSE m.handicap[1].points

\* the proposals ordered by match cost alone
SortRanked_costOnly(ms) == SortByKey(ms, [k \in 1..Len(ms) |-> ms[k].matchCost])

\* the comparator of lines 488-501 orders by handicap points, then by match
\* cost; the sort is stable
SortRanked(ms) ==
  LET byCost == SortByKey(ms, [k \in 1..Len(ms) |-> ms[k].matchCost])
  IN SortByKey(byCost, [k \in 1..Len(byCost) |-> HandicapPointsOf(byCost[k])])

\* what the function returns: a list of proposals
MatchList(ms) == [kind |-> "list", matches |-> ms]

\* the fixed team: two roster players, or a team with an id of no player
TopFixedTeams == { <<1, 2>>, <<8, 7>>, <<1, 9>>, <<9, 2>> }

\* the ids of the available opponents; one list holds a member of the fixed
\* team <<1, 2>> and one holds an id twice
TopPools ==
  { <<>>, <<3>>, <<3, 4>>, <<4, 1, 3>>, <<3, 9, 4>>, <<9, 3>>, <<3, 4, 5, 6, 7, 8>>,
    <<3, 3, 4>> }

TopMatchPool == RunMatchPool \cup { Match(1, <<1, 2, 3>>, NoTeam, 2) }

TopHistories ==
  UNION { [1..n -> TopMatchPool] : n \in 0..MaxTopMatches } \cup LongHistories(TOP_WINDOW)

TopCall ==
  /\ pc = "idle"
  /\ \E fixed \in TopFixedTeams, ids \in TopPools, players \in RunRosters,
        matches \in TopHistories :
       LET playerForms == calculatePlayerForms(players, matches)
           syn == calculateSynergyMatrix(matches)
           fixedTeam == GeneratedPair(playerForms[fixed[1]], playerForms[fixed[2]], 0)
           pl == ResolvedPool(ids, playerForms)
           window == TopWindow(matches)
           recent == RecentMatchesOf(window)
           candidatePairs == CandidatePairs(pl, syn, 1, 2, <<>>)
           rankedMatchups ==
             [ k \in 1..Len(candidatePairs) |->
                 RankedMatchup(fixedTeam, candidatePairs[k], syn, recent) ]
       IN /\ fixedTeamIds' = fixed
          /\ poolIds' = ids
          /\ allPlayers' = players
          /\ allMatches' = matches
          /\ playerStats' = playerForms
          /\ synergyMatrix' = syn
          /\ IF ~Known(playerForms, fixed[1]) \/ ~Known(playerForms, fixed[2])
             THEN /\ result' = MatchList(<<>>)
                  /\ pc' = "top_returned"
                  /\ UNCHANGED <<pool, sortedMatches, recentMatches>>
             ELSE /\ pool' = pl
                  /\ sortedMatches' = window
                  /\ IF TopRecencyThrows(window)
                     THEN /\ result' = TypeError
                          /\ pc' = "top_thrown"
                          /\ UNCHANGED recentMatches
                     ELSE /\ recentMatches' = recent
                          /\ result' = MatchList(Take(SortRanked(rankedMatchups), TOP_LIMIT))
                          /\ pc' = "top_returned"
  /\ UNCHANGED <<drawVars, mi, recentPairs, pairs, currentTotalCost, iter, costCall,
                 selectedPlayerIds, synVars, team1Ids, team2Ids>>

\* the caller has the list, or has caught the error
TopReturn ==
  /\ pc \in {"top_returned", "top_thrown"}
  /\ pc' = "idle"
  /\ FormsReset
  /\ PairsReset
  /\ RunReset
  /\ QueryReset
  /\ UNCHANGED <<drawVars, costCall, synVars>>

TopInit ==
  pc = "idle" /\ FormsIdle /\ PairsIdle /\ CostIdle /\ RunIdle /\ SynIdle /\ QueryIdle /\ DrawIdle

TopNext == TopCall \/ TopReturn

SpecTop == TopInit /\ [][TopNext]_vars

----------------------------------------------------------------------------
(* predictMatchOutcome                                                     *)

\* return null
Null == [kind |-> "null"]

\* what the function returns when it returns a proposal
Proposal(m) == [kind |-> "match", match |-> m]

\* lines 518-534 and 537-551: the pair built for a team; the second member
\* is looked up only when a second id is given, and a second member that is
\* absent or not found is replaced by the first, strength and structure
\* being those of the first member alone
TeamPair(ids, playerForms) ==
  LET p1 == playerForms[ids[1]]
      hasP2 == Len(ids) > 1 /\ Known(playerForms, ids[2])
      p2 == playerForms[ids[2]]
  IN [player1 |-> p1,
      player2 |-> IF hasP2 THEN p2 ELSE p1,
      strength |-> p1.effectiveRating + (IF hasP2 THEN p2.effectiveRating ELSE 0),
      structure |-> IF hasP2 THEN Abs(p1.effectiveRating - p2.effectiveRating) ELSE 0,
      cost |-> 0]

\* lines 569-571: the second member counts only when team1Ids has a second id
hasWeakLink(p, t1Ids) ==
  \/ p.player1.effectiveRating < SUPPORT_CUTOFF
  \/ (Len(t1Ids) > 1 /\ p.player2.effectiveRating < SUPPORT_CUTOFF)

\* lines 553-583: <<>> for undefined, else the handicap in a 1-tuple
PredictHandicap(team1Pair, team2Pair, t1Ids) ==
  LET diff == Abs(team1Pair.strength - team2Pair.strength)
      base == IF diff > 3000 /\ diff <= 6000 THEN 1
              ELSE IF diff > 6000 /\ diff <= 9000 THEN 2
              ELSE IF diff > 9000 /\ diff <= 12000 THEN 3
              ELSE IF diff > 12000 THEN 4
              ELSE 0
      weakerTeam == IF team1Pair.strength < team2Pair.strength THEN 1 ELSE 2
      weakPair == IF weakerTeam = 1 THEN team1Pair ELSE team2Pair
      points == IF base > 0 /\ hasWeakLink(weakPair, t1Ids) THEN base + 1 ELSE base
  IN IF points > 0
     THEN << [team |-> weakerTeam, points |-> points, reason |-> Round2(diff)] >>
     ELSE <<>>

\* the proposal with a quality score that is not floored at 0
Prediction_noFloor(team1Pair, team2Pair, t1Ids) ==
  GeneratedMatch(team1Pair, team2Pair, 0, PredictHandicap(team1Pair, team2Pair, t1Ids),
    [qualityScore |-> 100 * Unit - 50 * Abs(team1Pair.strength - team2Pair.strength),
     team2Form |-> 0, team2Synergy |-> 0])

\* lines 585-601
Prediction(team1Pair, team2Pair, t1Ids) ==
  GeneratedMatch(team1Pair, team2Pair, 0, PredictHandicap(team1Pair, team2Pair, t1Ids),
    [qualityScore |-> Max(0, 100 * Unit - 50 * Abs(team1Pair.strength - team2Pair.strength)),
     team2Form |-> 0, team2Synergy |-> 0])

\* the function without the test of line 540: a first member of team 2 that
\* is not found is given the default rating
predictMatchOutcome_noTeam2Check(t1Ids, t2Ids, players, matches) ==
  IF Len(t1Ids) = 0 \/ Len(t2Ids) = 0 THEN Null
  ELSE LET playerForms == calculatePlayerForms(players, matches)
           withT2 == [ i \in DOMAIN playerForms \cup {t2Ids[1]} |->
                         IF Known(playerForms, i) THEN playerForms[i]
                         ELSE PlayerForm(i, 3 * Unit) ]
       IN IF ~Known(playerForms, t1Ids[1]) THEN Null
          ELSE Proposal(Prediction(TeamPair(t1Ids, playerForms),
                                   TeamPair(t2Ids, withT2), t1Ids))

\* the value the function returns
predictMatchOutcome(t1Ids, t2Ids, players, matches) ==
  IF Len(t1Ids) = 0 \/ Len(t2Ids) = 0 THEN Null
  ELSE LET playerForms == calculatePlayerForms(players, matches)
       IN IF ~Known(playerForms, t1Ids[1]) THEN Null
          ELSE IF ~Known(playerForms, t2Ids[1]) THEN Null
          ELSE Proposal(Prediction(TeamPair(t1Ids, playerForms),
                                   TeamPair(t2Ids, playerForms), t1Ids))

\* the id lists of a team: none, a single, a pair, a pair or a single with
\* an id of no player, three ids
PredictTeams ==
  { <<>>, <<1>>, <<2>>, <<3>>, <<4>>, <<1, 2>>, <<2, 1>>, <<3, 4>>, <<4, 2>>, <<3, 1>>,
    <<9>>, <<9, 1>>, <<1, 9>>, <<4, 9>>, <<1, 2, 3>> }

\* two players rated 4.0 and 2.0
RosterDuel == << Player(1, Num(40000), Undefined), Player(2, Num(20000), Undefined) >>

PredictRosters == RunRosters \cup {RosterDuel}

PredictHistories == UNION { [1..n -> TopMatchPool] : n \in 0..MaxPredictMatches }

PredictCall ==
  /\ pc = "idle"
  /\ \E t1Ids \in PredictTeams, t2Ids \in PredictTeams, players \in PredictRosters,
        matches \in PredictHistories :
       /\ team1Ids' = t1Ids
       /\ team2Ids' = t2Ids
       /\ allPlayers' = players
       /\ allMatches' = matches
       /\ playerStats' = IF Len(t1Ids) = 0 \/ Len(t2Ids) = 0 THEN <<>>
                         ELSE calculatePlayerForms(players, matches)
       /\ result' = predictMatchOutcome(t1Ids, t2Ids, players, matches)
  /\ pc' = "predict_returned"
  /\ UNCHANGED <<drawVars, sortedMatches, mi, pairVars, costCall, selectedPlayerIds, recentMatches,
                 synVars, fixedTeamIds, poolIds>>

PredictReturn ==
  /\ pc = "predict_returned"
  /\ pc' = "idle"
  /\ FormsReset
  /\ PairsReset
  /\ RunReset
  /\ QueryReset
  /\ UNCHANGED <<drawVars, costCall, synVars>>

PredictInit ==
  pc = "idle" /\ FormsIdle /\ PairsIdle /\ CostIdle /\ RunIdle /\ SynIdle /\ QueryIdle /\ DrawIdle

PredictNext == PredictCall \/ PredictReturn

SpecPredict == PredictInit /\ [][PredictNext]_vars

----------------------------------------------------------------------------
(* The three exported functions, called one after the other in any order.  *)

ApiInit ==
  pc = "idle" /\ FormsIdle /\ PairsIdle /\ CostIdle /\ RunIdle /\ SynIdle /\ QueryIdle /\ DrawIdle

ApiNext == RunNext \/ TopNext \/ PredictNext

SpecApi == ApiInit /\ [][ApiNext]_vars

----------------------------------------------------------------------------
(* Properties of the Pair Optimizer (SpecPairs)                            *)

PoolIds == { pool[k].id : k \in 1..Len(pool) }

PairIds(pr) == {pr.player1.id, pr.player2.id}

PairedIds(prs) == UNION { PairIds(prs[k]) : k \in 1..Len(prs) }

DistinctIds == \A k, l \in 1..Len(pool) : k # l => pool[k].id # pool[l].id

\* C2: for a pool of n players with distinct ids, after greedy seeding and
\* after every iteration: no pair holds a player twice, pairs are disjoint,
\* the paired players are pool players and the set of them never changes;
\* n even: everyone is paired; n odd: one player is left out; floor(n/2)
\* pairs.
C2_PairsPartitionPool ==
  /\ []((pc \in {"search", "done"} /\ DistinctIds) =>
         /\ \A k \in 1..Len(pairs) :
              /\ pairs[k].player1.id # pairs[k].player2.id
              /\ \E a, b \in 1..Len(pool) :
                   pairs[k].player1 = pool[a] /\ pairs[k].player2 = pool[b]
         /\ \A k, l \in 1..Len(pairs) :
              k # l => PairIds(pairs[k]) \cap PairIds(pairs[l]) = {}
         /\ Len(pairs) = Len(pool) \div 2
         /\ Len(pool) % 2 = 0 => PairedIds(pairs) = PoolIds
         /\ Len(pool) % 2 = 1 => Cardinality(PoolIds \ PairedIds(pairs)) = 1)
  /\ [][pc = "search" => PairedIds(pairs') = PairedIds(pairs)]_vars

\* two pairs and a player left out, after a swap has changed the seeding
C2_Witness ==
  /\ pc = "done"
  /\ Len(pool) = 5
  /\ Len(pairs) = 2
  /\ Cardinality(PoolIds \ PairedIds(pairs)) = 1
  /\ pairs # GreedyPairs(pool, synergyMatrix, recentPairs)

\* C3: the total pairing cost never increases from one iteration to the
\* next, the pairs change only when the total strictly decreases, and the
\* total after the last iteration is at most the total after greedy seeding.
C3_CostNeverIncreases ==
  /\ [][pc = "search" =>
          /\ TotalCost(pairs') <= TotalCost(pairs)
          /\ pairs' # pairs => TotalCost(pairs') < TotalCost(pairs)]_vars
  /\ [](pc = "done" =>
          TotalCost(pairs) <= TotalCost(GreedyPairs(pool, synergyMatrix, recentPairs)))

\* all 200 iterations have run and the total is below that of the seeding
C3_Witness ==
  /\ pc = "done"
  /\ iter = LOCAL_SEARCH_ITERATIONS
  /\ TotalCost(pairs) < TotalCost(GreedyPairs(pool, synergyMatrix, recentPairs))

----------------------------------------------------------------------------
(* Properties of runAutoMatchmaker (SpecRun)                               *)

Started == pc # "idle"

\* the call has failed: an error, nothing returned, nothing computed
Failed ==
  /\ pc = "thrown"
  /\ result = RunError
  /\ playerStats = <<>>
  /\ pool = <<>>
  /\ pairs = <<>>

\* C4 as stated: an odd number of selected player ids makes the call fail.
C4_Original == (Started /\ Len(selectedPlayerIds) % 2 = 1) => Failed

\* C4: when the number of roster players whose id is among the selected
\* ids is odd, the call reports an error and returns no players, pairs or
\* matches.
C4_OddSelectionFails ==
  (Started /\ Len(SelectedPlayers(selectedPlayerIds, allPlayers)) % 2 = 1) => Failed

\* three roster players selected, and the call has failed
C4_Witness ==
  /\ Failed
  /\ selectedPlayerIds = <<1, 2, 3>>
  /\ Len(SelectedPlayers(selectedPlayerIds, allPlayers)) = 3

\* greedy seeding has just run on the four players of the scenario
Scenario ==
  /\ pc = "search"
  /\ iter = 0
  /\ Len(pool) = 4
  /\ { pool[k].effectiveRating : k \in 1..4 } = {20000, 30000, 40000, 50000}
  /\ synergyMatrix = <<>>
  /\ recentPairs = {}

\* the ratings of the two members of a pair
PairRatings(pr) == {pr.player1.effectiveRating, pr.player2.effectiveRating}

----------------------------------------------------------------------------
(* Properties of the Pairing Cost (SpecCost)                               *)

\* C9: the Pairing Cost is symmetric: with the players exchanged, and the
\* same synergy map and recent-pairs set, the cost is the same.
C9_CostSymmetric ==
  (pc = "done" /\ costCall # <<>>) =>
    costCall.cost = getPairingCost(costCall.p2, costCall.p1, synergyMatrix, recentPairs)

\* two different players of different ratings whose pair has a synergy above
\* the threshold and is a recent pair
C9_Witness ==
  /\ pc = "done"
  /\ costCall # <<>>
  /\ costCall.p1.id > costCall.p2.id
  /\ costCall.p1.effectiveRating < costCall.p2.effectiveRating
  /\ PairKey(costCall.p1.id, costCall.p2.id) \in DOMAIN synergyMatrix
  /\ Abs(synergyMatrix[PairKey(costCall.p1.id, costCall.p2.id)]) > 3500
  /\ PairKey(costCall.p1.id, costCall.p2.id) \in recentPairs

\* the synergy recorded for the unordered pair {i1, i2}, 0 when there is none
PairSynergy(i1, i2) ==
  IF \E k \in DOMAIN synergyMatrix : {k[1], k[2]} = {i1, i2}
  THEN synergyMatrix[CHOOSE k \in DOMAIN synergyMatrix : {k[1], k[2]} = {i1, i2}]
  ELSE 0

IsRecentPair(i1, i2) == \E k \in recentPairs : {k[1], k[2]} = {i1, i2}

\* C10: the cost is (diff - 1.4)^2, plus 1.5 when diff < 0.6, plus 3.0 when
\* diff > 2.0, plus 10.0 when both ratings are below 2.6, plus 2*|synergy|
\* when |synergy| > 0.35, plus 15.0 for a recent pair; the boundary values
\* add nothing, and the cost is never negative.
C10_CostFormula ==
  (pc = "done" /\ costCall # <<>>) =>
    LET e1 == costCall.p1.effectiveRating
        e2 == costCall.p2.effectiveRating
        diff == Abs(e1 - e2)
        sy == Abs(PairSynergy(costCall.p1.id, costCall.p2.id))
        base == ((diff - 14000) * (diff - 14000)) \div Unit
        similar == IF diff < 6000 THEN 15000 ELSE 0
        broken == IF diff > 20000 THEN 30000 ELSE 0
        weak == IF e1 < 26000 /\ e2 < 26000 THEN 100000 ELSE 0
        known == IF sy > 3500 THEN 2 * sy ELSE 0
        repeat == IF IsRecentPair(costCall.p1.id, costCall.p2.id) THEN 150000 ELSE 0
    IN /\ costCall.cost = base + similar + broken + weak + known + repeat
       /\ costCall.cost >= 0
       /\ diff = 6000 => similar = 0
       /\ diff = 20000 => broken = 0
       /\ (e1 = 26000 \/ e2 = 26000) => weak = 0
       /\ sy = 3500 => known = 0

\* ratings 2.6 and 4.6 (difference exactly 2.0, one rating exactly 2.6), a
\* synergy of exactly 0.35 and a recent pair: the cost is 0.36 + 15
C10_Witness ==
  /\ pc = "done"
  /\ costCall # <<>>
  /\ costCall.p1.effectiveRating = 26000
  /\ costCall.p2.effectiveRating = 46000
  /\ PairSynergy(costCall.p1.id, costCall.p2.id) = 3500
  /\ IsRecentPair(costCall.p1.id, costCall.p2.id)
  /\ costCall.cost = 3600 + 150000

----------------------------------------------------------------------------
(* Properties of the Form Learner (SpecForms)                              *)

FormSum(stats) == SumOver(DOMAIN stats, [i \in DOMAIN stats |-> stats[i].form])

Members(m) ==
  {m.team1[k] : k \in 1..Len(m.team1)} \cup {m.team2[k] : k \in 1..Len(m.team2)}

FourDistinct(m) == TwoATwo(m) /\ Cardinality(Members(m)) = 4

\* the match is one the claims call skipped: a side is not of two ids, or an
\* id is not in the roster
Skipped(m) == ~TwoATwo(m) \/ \E i \in Members(m) : i \notin PlayerIds(allPlayers)

ReplayStep == pc = "replay" /\ mi' = mi + 1

\* C1: every replayed match is zero-sum: the changes of form of team 1's two
\* members add up to the negative of those of team 2's two members, the
\* total form of the roster is left as it was, and so it is 0 at all times.
C1_ZeroSum ==
  /\ [](FormSum(playerStats) = 0)
  /\ [][ReplayStep =>
          LET m == sortedMatches[mi]
              d(i) == playerStats'[i].form - playerStats[i].form
          IN /\ FormSum(playerStats') = FormSum(playerStats)
             /\ (FourDistinct(m) /\ ~Skipped(m)) =>
                  d(m.team1[1]) + d(m.team1[2]) = -(d(m.team2[1]) + d(m.team2[2]))]_vars

\* two matches were replayed and forms moved away from 0
C1_Witness ==
  /\ pc = "done"
  /\ Len(sortedMatches) = 2
  /\ \A k \in 1..2 : FourDistinct(sortedMatches[k]) /\ ~Skipped(sortedMatches[k])
  /\ \E i \in DOMAIN playerStats : playerStats[i].form > 0
  /\ \E i \in DOMAIN playerStats : playerStats[i].form < 0

\* C5: a match with an id absent from the roster, or with a side that is not
\* of exactly two ids, changes no player's form.
C5_SkippedMatchNoUpdate ==
  [][(ReplayStep /\ Skipped(sortedMatches[mi])) => playerStats' = playerStats]_vars

\* a match with one absent id and three roster players was passed over after
\* an earlier match had moved the forms
C5_Witness ==
  /\ pc = "replay"
  /\ mi = 3
  /\ ~Skipped(sortedMatches[1])
  /\ TwoATwo(sortedMatches[2])
  /\ Cardinality(Members(sortedMatches[2]) \cap PlayerIds(allPlayers)) = 3
  /\ Cardinality(Members(sortedMatches[2]) \ PlayerIds(allPlayers)) = 1
  /\ \E i \in DOMAIN playerStats : playerStats[i].form # 0

RosterEntry(P(_, _)) ==
  \A k \in 1..Len(allPlayers) :
    P(rawRating(allPlayers[k]), playerStats[allPlayers[k].id])

\* C6 as stated: base rating is the raw rating when it is positive and at
\* most 20, and 3.0 for every other raw rating; form starts at 0.
C6_Original ==
  pc \in {"replay", "done"} =>
    LET P(raw, f) ==
          /\ f.baseRating = IF raw > 0 /\ raw <= 20 * Unit THEN raw ELSE 3 * Unit
          /\ (pc = "replay" /\ mi = 1) => f.form = 0
    IN RosterEntry(P)

\* C6 (amended): base rating is the raw rating when it is non-zero and at
\* most 20, a negative raw rating included, and 3.0 when the raw rating is
\* above 20, zero or missing; form starts at 0.
C6_BaseRating ==
  pc \in {"replay", "done"} =>
    LET P(raw, f) ==
          /\ f.baseRating = IF raw # 0 /\ raw <= 20 * Unit THEN raw ELSE 3 * Unit
          /\ (pc = "replay" /\ mi = 1) => f.form = 0
    IN RosterEntry(P)

\* a roster with a negative raw rating, a raw rating of exactly 20 and one
\* above 20 has just been initialised
C6_Witness ==
  /\ pc = "replay"
  /\ mi = 1
  /\ \E k \in 1..Len(allPlayers) : rawRating(allPlayers[k]) < 0
  /\ \E k \in 1..Len(allPlayers) : rawRating(allPlayers[k]) = 20 * Unit
  /\ \E k \in 1..Len(allPlayers) : rawRating(allPlayers[k]) > 20 * Unit

\* C7: in the map an entry point gets back, effective rating is base rating
\* plus form rounded to 2 decimals, and base, form and effective rating are
\* those of replaying the supplied history from form 0: a function of the
\* supplied players and matches only.
C7_EffectiveRating ==
  pc = "done" =>
    /\ \A i \in DOMAIN playerStats :
         playerStats[i].effectiveRating =
           Round2(playerStats[i].baseRating + playerStats[i].form)
    /\ playerStats =
         [ i \in PlayerIds(allPlayers) |->
             LET r == ReplayAll(InitStats(allPlayers), SortAscByDate(allMatches), 1)[i]
             IN [r EXCEPT !.effectiveRating = Round2(r.baseRating + r.form)] ]

\* a returned map in which a form is not a whole number of hundredths, up and
\* down
C7_Witness ==
  /\ pc = "done"
  /\ \E i \in DOMAIN playerStats :
       /\ playerStats[i].form > 0
       /\ playerStats[i].effectiveRating > playerStats[i].baseRating + playerStats[i].form
  /\ \E i \in DOMAIN playerStats :
       /\ playerStats[i].form < 0
       /\ playerStats[i].effectiveRating > playerStats[i].baseRating + playerStats[i].form

DistinctDates(ms) == \A k, l \in 1..Len(ms) : k # l => ms[k].date # ms[l].date

Reorderings(ms) ==
  { [k \in 1..Len(ms) |-> ms[f[k]]] :
      f \in { g \in [1..Len(ms) -> 1..Len(ms)] : \A k, l \in 1..Len(ms) : k # l => g[k] # g[l] } }

\* C8: the replay runs in ascending timestamp order, and every permutation of
\* an input list with pairwise distinct timestamps gives the same forms.
C8_OrderIndependent ==
  /\ pc \in {"replay", "done"} =>
       /\ sortedMatches \in Reorderings(allMatches)
       /\ \A k \in 1..(Len(sortedMatches) - 1) :
            sortedMatches[k].date <= sortedMatches[k + 1].date
  /\ (pc = "done" /\ DistinctDates(allMatches)) =>
       \A perm \in Reorderings(allMatches) :
         calculatePlayerForms(allPlayers, perm) = playerStats

\* an input list given latest first, for which the order of replay matters
C8_Witness ==
  /\ pc = "done"
  /\ Len(allMatches) = 2
  /\ allMatches[1].date > allMatches[2].date
  /\ FinalizeStats(ReplayAll(InitStats(allPlayers), allMatches, 1)) # playerStats

----------------------------------------------------------------------------
(* Properties of the Synergy Estimator (SpecSynergy)                       *)

Games(stats, k) == IF k \in DOMAIN stats THEN stats[k].games ELSE 0

Wins(stats, k) == IF k \in DOMAIN stats THEN stats[k].wins ELSE 0

\* one iteration of matches.forEach is being taken
CountStep == pc = "count" /\ mi <= Len(allMatches) /\ mi' = mi + 1

\* the teams of m (1 or 2) that are two players making the pair k
TeamsOfPair(m, k) ==
  { t \in {1, 2} :
      LET team == IF t = 1 THEN m.team1 ELSE m.team2
      IN Len(team) = 2 /\ {team[1], team[2]} = {k[1], k[2]} }

----------------------------------------------------------------------------
(* Properties of the Match Scheduler within runAutoMatchmaker (SpecRun)    *)

Returned == pc = "returned" /\ result # <<>> /\ result.kind = "ok"

\* the identifiers of the four players of a proposal
Foursome(m) == PairIds(m.team1) \cup PairIds(m.team2)

\* C11: the matches returned by one call are over pairwise different sets
\* of four player identifiers.
C11_NoRepeatedFoursome ==
  Returned =>
    \A k, l \in 1..Len(result.matches) :
      k # l => Foursome(result.matches[k]) # Foursome(result.matches[l])

\* eight players selected: two matches are returned
C11_Witness ==
  /\ Returned
  /\ Len(result.pairs) = 4
  /\ Len(result.matches) = 2
  /\ \A k \in 1..2 : Cardinality(Foursome(result.matches[k])) = 4

----------------------------------------------------------------------------
(* Properties of the handicap rule (SpecApi)                               *)

RunReturned == pc = "returned"

TopReturned == pc = "top_returned"

PredictReturned == pc = "predict_returned"

\* the proposals in the value an entry point has returned
Proposals ==
  IF RunReturned \/ TopReturned
  THEN { result.matches[k] : k \in 1..Len(result.matches) }
  ELSE IF PredictReturned /\ result.kind = "match" THEN {result.match}
  ELSE {}

\* C12: in every proposal returned by the three entry points the handicap
\* is absent or is one record with points in 1..5.
C12_HandicapPoints ==
  \A m \in Proposals :
    \/ m.handicap = <<>>
    \/ Len(m.handicap) = 1 /\ m.handicap[1].points \in 1..5

\* a ranked list holding a proposal without handicap and one of 5 points
C12_Witness ==
  /\ TopReturned
  /\ \E m \in Proposals : m.handicap = <<>>
  /\ \E m \in Proposals : m.handicap # <<>> /\ m.handicap[1].points = 5

\* the bands as the claim words them
BandPoints(diff) ==
  IF diff <= 3000 THEN 0
  ELSE IF diff <= 6000 THEN 1
  ELSE IF diff <= 9000 THEN 2
  ELSE IF diff <= 12000 THEN 3
  ELSE 4

\* the members of a pair below the support cutoff
HasSupport(pr) ==
  \/ pr.player1.effectiveRating < SUPPORT_CUTOFF
  \/ pr.player2.effectiveRating < SUPPORT_CUTOFF

\* the points the rule gives the proposal m
RulePoints(m) ==
  LET base == BandPoints(Abs(m.team1.strength - m.team2.strength))
      lower == IF m.team1.strength < m.team2.strength THEN m.team1 ELSE m.team2
  IN IF base > 0 /\ HasSupport(lower) THEN base + 1 ELSE base

\* C13: for every proposal of the Match Scheduler and of
\* findTopMatchupsForTeam, the handicap is present exactly when the band
\* points plus the support point are positive, carries those points, and
\* targets the team of strictly lower strength.
C13_HandicapRule ==
  (RunReturned \/ TopReturned) =>
    \A m \in Proposals :
      /\ (m.handicap # <<>>) <=> (RulePoints(m) > 0)
      /\ m.handicap # <<>> =>
           /\ m.handicap[1].points = RulePoints(m)
           /\ m.handicap[1].team = 1 => m.team1.strength < m.team2.strength
           /\ m.handicap[1].team = 2 => m.team2.strength < m.team1.strength

\* a ranked list with proposals at the band edges 0.3, 0.6 and 0.9, whose
\* weaker team is the candidate, with and without the support point
C13_Witness ==
  /\ TopReturned
  /\ \E m \in Proposals :
       Abs(m.team1.strength - m.team2.strength) = 3000 /\ m.handicap = <<>>
  /\ \E m \in Proposals :
       /\ Abs(m.team1.strength - m.team2.strength) = 6000
       /\ m.handicap # <<>>
       /\ m.handicap[1] = [team |-> 2, points |-> 1, reason |-> 6000]
  /\ \E m \in Proposals :
       /\ Abs(m.team1.strength - m.team2.strength) = 9000
       /\ m.handicap # <<>>
       /\ m.handicap[1] = [team |-> 2, points |-> 3, reason |-> 9000]

----------------------------------------------------------------------------
(* Properties of predictMatchOutcome (SpecPredict)                         *)

\* presence, target team and points of a handicap
HandicapCore(h) == IF h = <<>> THEN <<>> ELSE <<h[1].team, h[1].points>>

\* C14 as stated: the handicap of a prediction is the one the Match
\* Scheduler's rule gives for the same two pairs, whatever the sizes of the
\* two teams.
C14_Original ==
  (PredictReturned /\ result.kind = "match") =>
    HandicapCore(result.match.handicap)
      = HandicapCore(Handicap(result.match.team1, result.match.team2))

\* C15: predictMatchOutcome returns null when an id list is empty or the
\* first id of a team is not in the roster; findTopMatchupsForTeam returns
\* an empty list when a fixed-team id is not in the roster; neither call
\* ends with an error.
C15_UnresolvedFirstId ==
  /\ (/\ PredictReturned
      /\ \/ team1Ids = <<>>
         \/ team2Ids = <<>>
         \/ team1Ids[1] \notin PlayerIds(allPlayers)
         \/ team2Ids[1] \notin PlayerIds(allPlayers)) => result = Null
  /\ (/\ pc \in {"top_returned", "top_thrown"}
      /\ \E k \in 1..2 : fixedTeamIds[k] \notin PlayerIds(allPlayers))
       => (pc = "top_returned" /\ result = MatchList(<<>>))

\* a fixed team with an id of no player, a pool of six opponents and a
\* history holding a record without team2: the empty list is returned
C15_Witness ==
  /\ TopReturned
  /\ fixedTeamIds = <<1, 9>>
  /\ Len(poolIds) = 6
  /\ Len(allPlayers) = 8
  /\ \E k \in 1..Len(allMatches) : allMatches[k].team2 = NoTeam
  /\ result = MatchList(<<>>)

\* a second member, or a candidate of the pool, is an id of no player
SecondMemberUnknown ==
  /\ PredictReturned
  /\ team1Ids # <<>> /\ team2Ids # <<>>
  /\ team1Ids[1] \in PlayerIds(allPlayers)
  /\ team2Ids[1] \in PlayerIds(allPlayers)
  /\ \/ Len(team1Ids) > 1 /\ team1Ids[2] \notin PlayerIds(allPlayers)
     \/ Len(team2Ids) > 1 /\ team2Ids[2] \notin PlayerIds(allPlayers)

CandidateUnknown ==
  /\ pc \in {"top_returned", "top_thrown"}
  /\ \A k \in 1..2 : fixedTeamIds[k] \in PlayerIds(allPlayers)
  /\ \E k \in 1..Len(poolIds) : poolIds[k] \notin PlayerIds(allPlayers)

\* C16 as stated: any id of no player makes predictMatchOutcome return null
\* and findTopMatchupsForTeam return an empty list.
C16_Original ==
  /\ SecondMemberUnknown => result = Null
  /\ CandidateUnknown => (TopReturned /\ result = MatchList(<<>>))

\* the pair of a team given by ids, as the prediction must hold it when the
\* second member is not found: the first member alone
SinglePair(p) ==
  [player1 |-> p, player2 |-> p, strength |-> p.effectiveRating, structure |-> 0,
   cost |-> 0]

\* C16: a second member that is not in the roster is left out, the team
\* being evaluated on its first member alone and a proposal returned; a
\* candidate of the pool that is not in the roster is left out, the pairs of
\* the other candidates being ranked; the call of findTopMatchupsForTeam
\* ends with an error only when the history holds a record without team.
C16_UnresolvedIdLeftOut ==
  /\ SecondMemberUnknown =>
       /\ result.kind = "match"
       /\ (Len(team1Ids) > 1 /\ team1Ids[2] \notin PlayerIds(allPlayers)) =>
            result.match.team1 = SinglePair(playerStats[team1Ids[1]])
       /\ (Len(team2Ids) > 1 /\ team2Ids[2] \notin PlayerIds(allPlayers)) =>
            result.match.team2 = SinglePair(playerStats[team2Ids[1]])
  /\ CandidateUnknown =>
       LET known == { k \in 1..Len(poolIds) : poolIds[k] \in PlayerIds(allPlayers) }
           n == Cardinality(known)
       IN /\ pc = "top_thrown" => \E k \in 1..Len(allMatches) : ~HasTeams(allMatches[k])
          /\ pc = "top_returned" =>
               /\ Len(result.matches) = Min(TOP_LIMIT, (n * (n - 1)) \div 2)
               /\ \A m \in Proposals :
                    /\ PairIds(m.team2) \subseteq PlayerIds(allPlayers)
                    /\ PairIds(m.team2) \subseteq { poolIds[k] : k \in known }

\* a pool of three ids, one of no player: the pair of the two others is
\* proposed
C16_Witness ==
  /\ TopReturned
  /\ fixedTeamIds = <<1, 2>>
  /\ poolIds = <<3, 9, 4>>
  /\ Len(result.matches) = 1
  /\ PairIds(result.matches[1].team2) = {3, 4}

----------------------------------------------------------------------------
(* Properties of the learners within the entry points (SpecApi)            *)

\* the synergy map of the call has been computed
SynergyLearned ==
  pc \in {"search", "done", "returned", "top_returned", "top_thrown"}
  \/ (pc = "thrown" /\ result = TypeError)

\* the match names an id that is not in the roster
NamesStranger(m) ==
  HasTeams(m) /\ \E i \in Members(m) : i \notin PlayerIds(allPlayers)

\* the teams (k, t) of the history that are two players making the pair key
TeamsPlayed(key) ==
  { kt \in (1..Len(allMatches)) \X {1, 2} :
      HasTeams(allMatches[kt[1]]) /\ kt[2] \in TeamsOfPair(allMatches[kt[1]], key) }

\* the teams of TeamsPlayed(key) in matches that name no stranger
TeamsPlayedKnown(key) ==
  { kt \in TeamsPlayed(key) : ~NamesStranger(allMatches[kt[1]]) }

TeamsWon(S) == { kt \in S : allMatches[kt[1]].winner = kt[2] }

\* the pair keys of the two-player teams of the history
HistoryKeys ==
  { PairKey(t[1], t[2]) :
      t \in { tm \in UNION { {allMatches[k].team1, allMatches[k].team2} :
                               k \in 1..Len(allMatches) } : Len(tm) = 2 } }

\* C18 as stated: within runAutoMatchmaker and findTopMatchupsForTeam the
\* synergy map counts no game of a match naming an id that is not in the
\* roster.
C18_Original ==
  SynergyLearned =>
    /\ \A key \in DOMAIN synergyMatrix : TeamsPlayedKnown(key) # {}
    /\ \A key \in DOMAIN synergyMatrix :
         synergyMatrix[key] =
           Synergy([games |-> Cardinality(TeamsPlayedKnown(key)),
                    wins |-> Cardinality(TeamsWon(TeamsPlayedKnown(key)))])

\* C18: within runAutoMatchmaker and findTopMatchupsForTeam the Form Learner
\* passes over a match naming an id that is not in the roster, but the
\* Synergy Estimator does not look at the roster: every two-player team of
\* every match with both teams present has its game, and its win, counted,
\* the pair holding the unknown id included.
C18_SynergyIgnoresRoster ==
  SynergyLearned =>
    /\ DOMAIN synergyMatrix = { key \in HistoryKeys : TeamsPlayed(key) # {} }
    /\ \A key \in DOMAIN synergyMatrix :
         synergyMatrix[key] =
           Synergy([games |-> Cardinality(TeamsPlayed(key)),
                    wins |-> Cardinality(TeamsWon(TeamsPlayed(key)))])
    /\ (\A k \in 1..Len(allMatches) : ~HasTeams(allMatches[k]) \/ NamesStranger(allMatches[k]))
         => \A i \in DOMAIN playerStats : playerStats[i].form = 0

\* the whole history is one match of players 1 and 9 against 3 and 4, id 9
\* being in no roster: both pairs are in the synergy map and no form moved
C18_Witness ==
  /\ pc = "search"
  /\ Len(allMatches) = 1
  /\ allMatches[1].team1 = <<1, 9>>
  /\ DOMAIN synergyMatrix = {<<1, 9>>, <<3, 4>>}
  /\ synergyMatrix[<<3, 4>>] > 0
  /\ \A i \in DOMAIN playerStats : playerStats[i].form = 0

\* C19 as stated: a match with a missing team1 or team2 never makes
\* runAutoMatchmaker or findTopMatchupsForTeam end with an error.
C19_Original ==
  (\E k \in 1..Len(allMatches) : ~HasTeams(allMatches[k]))
    => ~(pc \in {"thrown", "top_thrown"} /\ result = TypeError)

----------------------------------------------------------------------------
(* Properties of predictMatchOutcome on singles (SpecPredict)              *)

\* a prediction has been returned for two teams of one id each
SinglesPredicted ==
  PredictReturned /\ Len(team1Ids) = 1 /\ Len(team2Ids) = 1 /\ result.kind = "match"

\* C21: on two singles teams each team has the strength of its player's
\* effective rating and structure 0, and the quality score is
\* max(0, 100 - 50 * diff); with 4.0 against 2.0 the quality is 0 and the
\* handicap is 5 points for team 2.
C21_SinglesPrediction ==
  SinglesPredicted =>
    LET m == result.match
        a == playerStats[team1Ids[1]].effectiveRating
        b == playerStats[team2Ids[1]].effectiveRating
    IN /\ m.team1.strength = a /\ m.team1.structure = 0
       /\ m.team2.strength = b /\ m.team2.structure = 0
       /\ m.analysis.qualityScore = Max(0, 100 * Unit - 50 * Abs(a - b))
       /\ m.analysis.qualityScore >= 0
       /\ (a = 40000 /\ b = 20000) =>
            /\ m.analysis.qualityScore = 0
            /\ HandicapCore(m.handicap) = <<2, 5>>

\* the prediction of the player at 4.0 against the player at 2.0
C21_Witness ==
  /\ SinglesPredicted
  /\ playerStats[team1Ids[1]].effectiveRating = 40000
  /\ playerStats[team2Ids[1]].effectiveRating = 20000
  /\ result.match.analysis.qualityScore = 0
  /\ HandicapCore(result.match.handicap) = <<2, 5>>

----------------------------------------------------------------------------
(* Properties of findTopMatchupsForTeam (SpecTop)                          *)

\* findTopMatchupsForTeam has returned after resolving the fixed team
TopRanked ==
  /\ TopReturned
  /\ Known(playerStats, fixedTeamIds[1])
  /\ Known(playerStats, fixedTeamIds[2])

\* every candidate pair of the pool, as a proposal against the fixed team
RankedCandidates ==
  LET fixedTeam == GeneratedPair(playerStats[fixedTeamIds[1]], playerStats[fixedTeamIds[2]], 0)
      cps == CandidatePairs(pool, synergyMatrix, 1, 2, <<>>)
  IN { RankedMatchup(fixedTeam, cps[k], synergyMatrix, recentMatches) : k \in 1..Len(cps) }

\* a ranks strictly before b: fewer handicap points, or the same points and
\* a lower match cost
RanksBefore(a, b) ==
  \/ HandicapPointsOf(a) < HandicapPointsOf(b)
  \/ (HandicapPointsOf(a) = HandicapPointsOf(b) /\ a.matchCost < b.matchCost)

\* C22: findTopMatchupsForTeam returns min(10, C(n,2)) proposals for the n
\* pool entries that resolve, in ascending order of handicap points and,
\* among equal points, of match cost, and no candidate left out ranks
\* strictly before a returned one.
C22_TopTen ==
  TopRanked =>
    LET n == Len(pool)
        ms == result.matches
        returned == { ms[k] : k \in 1..Len(ms) }
    IN /\ Len(ms) = Min(TOP_LIMIT, (n * (n - 1)) \div 2)
       /\ Len(ms) <= TOP_LIMIT
       /\ returned \subseteq RankedCandidates
       /\ \A k, l \in 1..Len(ms) : k < l => ~RanksBefore(ms[l], ms[k])
       /\ \A c \in RankedCandidates \ returned : \A r \in returned : ~RanksBefore(c, r)

\* fifteen candidates of which ten are returned, with and without handicap
C22_Witness ==
  /\ TopRanked
  /\ Len(pool) = 6
  /\ Len(result.matches) = 10
  /\ Cardinality(RankedCandidates) = 15
  /\ HandicapPointsOf(result.matches[1]) = 0
  /\ HandicapPointsOf(result.matches[10]) > 0
  /\ \E k \in 1..9 :
       /\ HandicapPointsOf(result.matches[k]) < HandicapPointsOf(result.matches[k + 1])
       /\ result.matches[k].matchCost > result.matches[k + 1].matchCost

----------------------------------------------------------------------------
(* Properties of the recency windows (SpecApi)                             *)

\* the matches of ms dated after ms[k]
Newer(ms, k) == { l \in 1..Len(ms) : ms[l].date > ms[k].date }

\* the other matches of ms that are not dated before ms[k]
NotOlder(ms, k) == { l \in 1..Len(ms) : l # k /\ ms[l].date >= ms[k].date }

\* the pair key is that of a two-player team of the match
HasPair(m, key) ==
  \/ (Len(m.team1) = 2 /\ PairKey(m.team1[1], m.team1[2]) = key)
  \/ (Len(m.team2) = 2 /\ PairKey(m.team2[1], m.team2[2]) = key)

\* the match is two-a-side and played by the four ids of the key
HasFoursome(m, key) ==
  Len(m.team1) = 2 /\ Len(m.team2) = 2 /\ SortedKey(m.team1 \o m.team2) = key

\* runAutoMatchmaker has built its recency sets
RunWindowed == pc \in {"search", "done", "returned"}

\* ms[k] is two-a-side and fewer than n other matches are not dated before it
SurelyRecent(ms, k, n) ==
  Len(ms[k].team1) = 2 /\ Len(ms[k].team2) = 2 /\ Cardinality(NotOlder(ms, k)) < n

\* the pair keys of recent are those of matches among the n most recent of
\* the history: a key is in the set only if a match holding it has fewer
\* than n matches dated after it, and the keys of both teams of a two-a-side
\* match are in the set if fewer than n other matches are not dated before it
PairWindow(recent, n) ==
  /\ \A key \in recent :
       \E k \in 1..Len(allMatches) :
         HasPair(allMatches[k], key) /\ Cardinality(Newer(allMatches, k)) < n
  /\ \A k \in 1..Len(allMatches) :
       SurelyRecent(allMatches, k, n) =>
         /\ PairKey(allMatches[k].team1[1], allMatches[k].team1[2]) \in recent
         /\ PairKey(allMatches[k].team2[1], allMatches[k].team2[2]) \in recent

\* the same for the keys of four players
FoursomeWindow(recent, n) ==
  /\ \A key \in recent :
       \E k \in 1..Len(allMatches) :
         HasFoursome(allMatches[k], key) /\ Cardinality(Newer(allMatches, k)) < n
  /\ \A k \in 1..Len(allMatches) :
       SurelyRecent(allMatches, k, n) =>
         SortedKey(allMatches[k].team1 \o allMatches[k].team2) \in recent

\* C23: the recency sets hold the keys of the N most recent matches by date,
\* N = 20 for the two sets of runAutoMatchmaker and N = 50 for the set of
\* findTopMatchupsForTeam; the repeat penalties of the returned pairs and
\* proposals are those of these sets.
C23_RecencyWindow ==
  /\ RunWindowed =>
       /\ PairWindow(recentPairs, RECENT_WINDOW)
       /\ FoursomeWindow(recentMatches, RECENT_WINDOW)
  /\ RunReturned =>
       /\ \A k \in 1..Len(result.pairs) :
            result.pairs[k].cost
              = getPairingCost(result.pairs[k].player1, result.pairs[k].player2,
                               synergyMatrix, recentPairs)
       /\ \A k \in 1..Len(result.matches) :
            result.matches[k].matchCost
              = MatchCost(result.matches[k].team1, result.matches[k].team2, recentMatches)
  /\ TopRanked =>
       /\ FoursomeWindow(recentMatches, TOP_WINDOW)
       /\ \A k \in 1..Len(result.matches) :
            result.matches[k].matchCost
              = TopMatchCost(result.matches[k].team1, result.matches[k].team2, recentMatches)

\* a history of 21 matches whose oldest is the only one of players 1..4
C23_Witness ==
  /\ RunReturned
  /\ Len(allMatches) = RECENT_WINDOW + 1
  /\ allMatches[1] = Aged(1)
  /\ selectedPlayerIds = <<3, 1, 4, 2>>
  /\ PairKey(1, 2) \notin recentPairs
  /\ PairKey(5, 6) \in recentPairs
  /\ recentMatches = {SortedKey(<<5, 6, 7, 8>>)}
  /\ Len(result.matches) = 1
  /\ result.matches[1].matchCost < 50 * Unit

----------------------------------------------------------------------------
(* Properties of the Match Scheduler on its input pairs (SpecRun)          *)

\* the teams of the returned matches: team 1 and team 2 of each, in order
ScheduledSides ==
  [ k \in 1..(2 * Len(result.matches)) |->
      IF k % 2 = 1 THEN result.matches[(k + 1) \div 2].team1
      ELSE result.matches[k \div 2].team2 ]

\* C24: of n pairs the Match Scheduler emits floor(n/2) matches; every side
\* of a match is an input pair, no input pair is on two sides (of one match
\* or of two), and one pair is left unscheduled exactly when n is odd.
C24_PairsConsumedInTwos ==
  RunReturned =>
    LET n == Len(result.pairs)
        given == { result.pairs[k] : k \in 1..n }
        sides == ScheduledSides
        used == { sides[k] : k \in 1..Len(sides) }
    IN /\ Len(result.matches) = n \div 2
       /\ used \subseteq given
       /\ \A k, l \in 1..Len(sides) : k # l => sides[k] # sides[l]
       /\ \A k \in 1..Len(result.matches) :
            result.matches[k].team1 # result.matches[k].team2
       /\ Cardinality(given) = n
       /\ Cardinality(given \ used) = n % 2

\* three pairs: one match, and one pair left unscheduled
C24_Witness ==
  /\ RunReturned
  /\ Len(result.pairs) = 3
  /\ Len(result.matches) = 1
  /\ \E k \in 1..3 :
       /\ result.pairs[k] # result.matches[1].team1
       /\ result.pairs[k] # result.matches[1].team2

----------------------------------------------------------------------------
(* Properties of the synergy map (SpecSynergy)                             *)

\* the pair keys of ids 1..5: the lower id first
KeysOfIds == { <<i, j>> : i, j \in 1..5 } \cap { k \in Nat \X Nat : k[1] <= k[2] }

\* the number of teams of the matches of ms, among those in teams, that are
\* the pair k; with won, only the teams that won
Appearances(ms, k, won) ==
  SumOver(1..Len(ms),
          [ x \in 1..Len(ms) |->
              IF ~HasTeams(ms[x]) THEN 0
              ELSE IF won THEN Cardinality(TeamsOfPair(ms[x], k) \cap {ms[x].winner})
              ELSE Cardinality(TeamsOfPair(ms[x], k)) ])

\* C25 as stated: the map has an entry for a pair exactly when the pair was
\* a two-player team of at least one match.
C25_Original ==
  pc = "done" =>
    \A k \in KeysOfIds :
      k \in DOMAIN synergyMatrix
        <=> \E x \in 1..Len(allMatches) : TeamsOfPair(allMatches[x], k) # {}

\* C25: the map has an entry for a pair exactly when the pair was a
\* two-player team of at least one match that has both its team fields; the
\* entry is computed from one counter holding every such appearance, whatever
\* the order of the two ids and whichever team the pair was, with wins <=
\* games; a pair without entry is given synergy 0 by the Pairing Cost.
C25_OneCounterPerPair ==
  pc = "done" =>
    /\ DOMAIN synergyMatrix = DOMAIN pairStats
    /\ DOMAIN pairStats \subseteq KeysOfIds
    /\ \A k \in KeysOfIds :
         /\ k \in DOMAIN synergyMatrix <=> Appearances(allMatches, k, FALSE) > 0
         /\ k \in DOMAIN synergyMatrix =>
              /\ pairStats[k].games = Appearances(allMatches, k, FALSE)
              /\ pairStats[k].wins = Appearances(allMatches, k, TRUE)
              /\ pairStats[k].wins <= pairStats[k].games
              /\ synergyMatrix[k] = Synergy(pairStats[k])
         /\ k \notin DOMAIN synergyMatrix =>
              /\ SynergyOf(synergyMatrix, k) = 0
              /\ \A r1, r2 \in CostRatings :
                   getPairingCost(PlayerForm(k[1], r1), PlayerForm(k[2], r2),
                                  synergyMatrix, {})
                     = getPairingCost(PlayerForm(k[1], r1), PlayerForm(k[2], r2), <<>>, {})

\* the pair of players 1 and 2 won as team 1, then as team 2 with its ids
\* given in the other order; players 1 and 3 were never a team
C25_Witness ==
  /\ pc = "done"
  /\ Len(allMatches) = 2
  /\ allMatches[1].team1 = <<1, 2>> /\ allMatches[1].team2 = <<3, 4>>
  /\ allMatches[1].winner = 1
  /\ allMatches[2].team2 = <<2, 1>> /\ allMatches[2].winner = 2
  /\ pairStats[<<1, 2>>] = [games |-> 2, wins |-> 2]
  /\ DOMAIN synergyMatrix = {<<1, 2>>, <<3, 4>>}

----------------------------------------------------------------------------
(* Properties of the records of the Pair Optimizer (SpecPairs)             *)

\* C26: after greedy seeding and after every iteration of the local search
\* each pair's strength is the sum of its members' effective ratings, its
\* structure the absolute difference of them (so >= 0), its cost the Pairing
\* Cost of its two members, and the running total is the sum of the costs of
\* the pairs.
C26_RecordsMatchMembers ==
  pc \in {"search", "done"} =>
    /\ \A k \in 1..Len(pairs) :
         LET a == pairs[k].player1
             b == pairs[k].player2
         IN /\ pairs[k].strength = a.effectiveRating + b.effectiveRating
            /\ pairs[k].structure \in {a.effectiveRating - b.effectiveRating,
                                       b.effectiveRating - a.effectiveRating}
            /\ pairs[k].structure >= 0
            /\ pairs[k].cost = getPairingCost(a, b, synergyMatrix, recentPairs)
    /\ currentTotalCost = TotalCost(pairs)

\* the search has ended after a swap of two pairs whose costs both changed
C26_Witness ==
  /\ pc = "done"
  /\ iter = LOCAL_SEARCH_ITERATIONS
  /\ Len(pairs) >= 2
  /\ LET greedy == GreedyPairs(pool, synergyMatrix, recentPairs)
     IN \E k, l \in 1..Len(pairs) :
          /\ k # l
          /\ pairs[k].player2 # greedy[k].player2 /\ pairs[k].cost # greedy[k].cost
          /\ pairs[l].player2 # greedy[l].player2 /\ pairs[l].cost # greedy[l].cost
          /\ pairs[k].structure # greedy[k].structure

----------------------------------------------------------------------------
(* Properties of the steps of the Match Scheduler (SpecRun)                *)

\* the pairs still unscheduled when the k-th match is made
Unscheduled(k) ==
  { result.pairs[x] : x \in 1..Len(result.pairs) }
    \ UNION { {result.matches[l].team1, result.matches[l].team2} : l \in 1..(k - 1) }

\* a comes before b in descending order of strength, the order of the given
\* pairs deciding between equal strengths
StrongerFirst(a, b) ==
  \/ a.strength > b.strength
  \/ /\ a.strength = b.strength
     /\ \E x, y \in 1..Len(result.pairs) :
          x < y /\ result.pairs[x] = a /\ result.pairs[y] = b

\* C27: in the k-th match team 1 is a pair of maximal strength among the
\* pairs still unscheduled and team 2 is a remaining pair of minimal match
\* cost, the first such pair in descending order of strength; so team 1 is
\* at least as strong as team 2, the matches are in non-increasing order of
\* the strength of team 1, and a handicap is for team 2.
C27_StrongestFirst ==
  RunReturned =>
    /\ \A k \in 1..Len(result.matches) :
         LET m == result.matches[k]
             others == Unscheduled(k) \ {m.team1}
         IN /\ m.team1 \in Unscheduled(k)
            /\ \A t \in Unscheduled(k) : t.strength <= m.team1.strength
            /\ m.team2 \in others
            /\ m.matchCost = MatchCost(m.team1, m.team2, recentMatches)
            /\ \A t \in others :
                 /\ MatchCost(m.team1, t, recentMatches) >= m.matchCost
                 /\ (MatchCost(m.team1, t, recentMatches) = m.matchCost /\ t # m.team2)
                      => StrongerFirst(m.team2, t)
            /\ m.team1.strength >= m.team2.strength
            /\ m.handicap # <<>> => m.handicap[1].team = 2
    /\ \A k \in 1..(Len(result.matches) - 1) :
         result.matches[k].team1.strength >= result.matches[k + 1].team1.strength

\* three pairs: two pairs cost the strongest the same, it meets the one given
\* first, and that one has a handicap
C27_Witness ==
  /\ RunReturned
  /\ Len(result.pairs) = 3
  /\ Len(result.matches) = 1
  /\ result.matches[1].handicap # <<>>
  /\ \E t \in Unscheduled(1) \ {result.matches[1].team1, result.matches[1].team2} :
       /\ MatchCost(result.matches[1].team1, t, recentMatches) = result.matches[1].matchCost
       /\ StrongerFirst(result.matches[1].team2, t)

----------------------------------------------------------------------------
(* PROPERTIES of the local search, statement by statement                  *)

\* the call ends
SearchEnds == (pc = "search") ~> (pc = "done")

\* at the end of the loop 200 iterations were run, or none
IterationsRun ==
  [](pc = "done" => iter = (IF Len(pairs) >= 2 THEN LOCAL_SEARCH_ITERATIONS ELSE 0))

\* an iteration is completed on two distinct indices of pairs
DistinctIndices ==
  [][iter' = iter + 1 =>
       /\ idx1 \in 1..Len(pairs)
       /\ idx2 \in 1..Len(pairs)
       /\ idx1 # idx2]_vars

\* the retry loop is left: a repeated index leads to a different one
RetryEnds ==
  (pc = "drawn" /\ idx1 = idx2) ~> (pc = "drawn" /\ idx1 # idx2)

\* C28: the Pair Optimizer always terminates: with at least two pairs the
\* local search runs exactly 200 iterations and with fewer it runs none, every
\* iteration works on two distinct pair indices, and under a random source
\* that does not repeat the first index for ever the retry loop ends.
C28_SearchTerminates == SearchEnds /\ IterationsRun /\ DistinctIndices /\ RetryEnds

\* the last iteration has drawn the same index twice and must draw again
C28_Witness == pc = "drawn" /\ idx1 = idx2 /\ iter = LOCAL_SEARCH_ITERATIONS - 1

----------------------------------------------------------------------------
(* PROPERTIES of one replayed match: direction and size of the form change *)

\* effT1 - effT2 of the match about to be replayed
Advantage(stats, m) ==
  (stats[m.team1[1]].baseRating + stats[m.team1[1]].form
     + stats[m.team1[2]].baseRating + stats[m.team1[2]].form)
  - (stats[m.team2[1]].baseRating + stats[m.team2[1]].form
       + stats[m.team2[2]].baseRating + stats[m.team2[2]].form)

WinningTeam(m) == IF m.winner = 1 THEN m.team1 ELSE m.team2

LosingTeam(m) == IF m.winner = 1 THEN m.team2 ELSE m.team1

\* the four forms move by s: up for the winners, down for the losers
MovedBy(s, m) ==
  /\ \A k \in 1..2 :
       playerStats'[WinningTeam(m)[k]].form = playerStats[WinningTeam(m)[k]].form + s
  /\ \A k \in 1..2 :
       playerStats'[LosingTeam(m)[k]].form = playerStats[LosingTeam(m)[k]].form - s

\* a match between four distinct roster players is replayed
FourReplayed ==
  ReplayStep /\ FourDistinct(sortedMatches[mi]) /\ ~Skipped(sortedMatches[mi])

\* The share computed in units of 0.0001 and the share computed in double
\* precision leave the open interval (0, K/2) together on these matches.
\* Up to three rating points between the teams both are inside it.  From
\* twenty points on, 10^(-gap/D) is below 2^-54 and 1 + 10^(-gap/D) is 1 in
\* double precision: the favoured team 1 moves the forms by exactly 0 when
\* it wins and by exactly K/2 when it loses, and team 1 as the outsider
\* moves them by exactly K/2 when it wins.
SameInDouble(stats, m) ==
  \/ Abs(Advantage(stats, m)) <= 3 * Unit
  \/ Advantage(stats, m) >= 20 * Unit
  \/ Advantage(stats, m) <= -20 * Unit /\ m.winner = 1

\* the matches replayed so far that player i took part in
Played(i) ==
  Cardinality({ k \in 1..(mi - 1) :
                  ~Skipped(sortedMatches[k]) /\ i \in Members(sortedMatches[k]) })

----------------------------------------------------------------------------
(* PROPERTIES of the players of a proposal of findTopMatchupsForTeam       *)

\* the two players of the opponent pair of proposal m
Opponents(m) == {m.team2.player1.id, m.team2.player2.id}

\* C30: in every proposal returned by findTopMatchupsForTeam the opponent
\* pair is made of two different players and neither of them is a member of
\* the fixed team, whatever pool id list was given.
C30_OpponentsApart ==
  TopRanked =>
    \A k \in 1..Len(result.matches) :
      /\ Cardinality(Opponents(result.matches[k])) = 2
      /\ Opponents(result.matches[k]) \cap {fixedTeamIds[1], fixedTeamIds[2]} = {}

\* the pool id list holds no id twice and no member of the fixed team, as
\* the list built at HeadToHeadMatrix.tsx:222-228 from a roster of distinct ids
CleanPool ==
  /\ Cardinality({poolIds[k] : k \in 1..Len(poolIds)}) = Len(poolIds)
  /\ \A k \in 1..Len(poolIds) : poolIds[k] \notin {fixedTeamIds[1], fixedTeamIds[2]}

\* C30 (amended): for a pool id list of distinct ids none of which is a
\* member of the fixed team, in every proposal returned by
\* findTopMatchupsForTeam the opponent pair is made of two different players
\* of the pool and neither of them is a member of the fixed team.
C30_CleanPool ==
  (TopRanked /\ CleanPool) =>
    \A k \in 1..Len(result.matches) :
      /\ Cardinality(Opponents(result.matches[k])) = 2
      /\ Opponents(result.matches[k]) \subseteq {poolIds[j] : j \in 1..Len(poolIds)}
      /\ Opponents(result.matches[k]) \cap {fixedTeamIds[1], fixedTeamIds[2]} = {}

\* ten proposals were returned for a clean pool of six ids against the fixed
\* team <<1, 2>>
C30_Witness ==
  /\ TopRanked
  /\ CleanPool
  /\ Len(poolIds) = 6
  /\ Len(result.matches) = TOP_LIMIT
  /\ fixedTeamIds = <<1, 2>>

====
